---- MODULE Spec2Model ----
(***************************************************************************)
(* Order-fulfilment saga of the sales / inventory / delivery services.     *)
(*                                                                         *)
(*  - Stock ledger   : inventory-service inventoryService (checkAvailabi-  *)
(*                     lity, reserveStock, releaseStock), one step per     *)
(*                     awaited database call so that concurrent calls      *)
(*                     interleave exactly where the code can be suspended. *)
(*  - Idempotency    : api-gateway idempotencyPreHandler and the           *)
(*                     POST /api/sales route behind it.                    *)
(*  - Correlated RPC : sales-service checkInventory, its timer and the     *)
(*                     inventory_response_queue consumer.                  *)
(***************************************************************************)
EXTENDS Integers, Sequences, FiniteSets, TLC

(***************************************************************************)
(* Bounds                                                                  *)
(***************************************************************************)
MaxStock == 2
MaxQty == 2
MaxItems == 2
MaxConcurrentItems == 1
MaxCalls == 2
MaxRequests == 2
MaxRpc == 2
MaxReplies == 2
MaxSagas == 2
MaxStatusCalls == 3
MaxStatusOrders == 1
MaxConsumerCalls == 1
MaxGarbage == 1
MaxDeliveryRows == 3

Null == "null"
\* findFirst found no row (undefined in the code)
NoProduct == [notFound |-> TRUE]

VARIABLES
    products,        \* inventory_db.products: id -> [stockQuantity, isActive]
    seedStock,       \* stock quantity each product row was seeded with
    stockMovements,  \* inventory_db.stock_movements, in insertion order
    calls,           \* in-flight inventoryService calls and their locals
    redis,           \* gateway cache: idempotency key -> stored string, or no entry
    salesOrders,     \* Order rows the sales service created for forwarded requests
    requests,        \* POST /api/sales requests at the gateway and their locals
    pendingInventoryRequests,  \* sales-service Map: correlationId -> resolvers
    rpc,             \* each checkInventory call: its promise and its timer
    inventory_check_queue,     \* published stock-check requests
    inventory_response_queue,  \* replies not yet consumed (acked)
    orders,          \* sales_db.orders: the Order header rows
    orderItems,      \* sales_db.order_items: the Order Line rows
    sagas,           \* POST /orders requests at the sales service and their locals
    stock_reservation_queue,   \* reservation messages not yet delivered
    delivery_queue,            \* ORDER_CREATED announcements not yet delivered
    deliveries,      \* delivery_db.deliveries, in insertion order (id = position)
    order_status_queue,        \* DELIVERY_STATUS_UPDATE messages not yet delivered
    statusCalls      \* in-flight delivery-service and sales-service status handlers

ledgerVars == <<products, seedStock, stockMovements, calls>>
gatewayVars == <<redis, salesOrders, requests>>
rpcVars == <<pendingInventoryRequests, rpc, inventory_check_queue, inventory_response_queue>>
sagaVars == <<orders, orderItems, sagas, stock_reservation_queue, delivery_queue>>
statusVars == <<deliveries, order_status_queue, statusCalls>>
vars == <<ledgerVars, gatewayVars, rpcVars, sagaVars, statusVars>>

(***************************************************************************)
(* Stock ledger                                                            *)
(***************************************************************************)
SeededIds == {"prod-001", "prod-002"}
ProductIds == SeededIds \cup {"prod-404"}
\* the order each consumed message (call) is about
OrderIdSeq == <<"order-1", "order-2", "order-3", "order-4">>
OrderIds == {OrderIdSeq[c] : c \in 1..MaxCalls}
CallIds == 1..MaxCalls

Item == [productId : ProductIds, quantity : 1..MaxQty]

RECURSIVE SeqsUpTo(_, _)
SeqsUpTo(S, n) ==
    IF n = 0 THEN {<<>>}
    ELSE LET shorter == SeqsUpTo(S, n - 1)
         IN  shorter \cup {Append(s, x) : s \in {t \in shorter : Len(t) = n - 1}, x \in S}

ItemLists == SeqsUpTo(Item, MaxItems) \ {<<>>}
ConcurrentItemLists == SeqsUpTo(Item, MaxConcurrentItems) \ {<<>>}
\* the lines of a POST /orders request: possibly none (the schema does not forbid it)
SagaItemLists == SeqsUpTo([productId : ProductIds, quantity : {MaxQty}], MaxItems)

\* db.query.products.findFirst({ where: eq(products.id, productId) })
findFirst(productId) ==
    IF productId \in DOMAIN products THEN products[productId] ELSE NoProduct

IdleCall ==
    [op |-> "none", pc |-> "idle", orderId |-> Null, items |-> <<>>, i |-> 1,
     product |-> NoProduct, previousStock |-> 0, newStock |-> 0, results |-> <<>>]

InitLedger ==
    /\ products \in [SeededIds -> [stockQuantity : 0..MaxStock, isActive : {0, 1}]]
    /\ products["prod-001"].isActive = 1
    /\ products["prod-002"].stockQuantity = MaxStock
    /\ seedStock = [p \in SeededIds |-> products[p].stockQuantity]
    /\ stockMovements = <<>>
    /\ calls = [c \in CallIds |-> IdleCall]

curItem(c) == calls[c].items[calls[c].i]

InFlight == {c \in CallIds : calls[c].pc \notin {"idle", "done"}}

\* Entry of a service call: the locals of a fresh invocation.
startCall(op, orderId, items) ==
    [IdleCall EXCEPT !.op = op, !.pc = "find", !.orderId = orderId, !.items = items]

\* End of one loop iteration: next item, or return the collected results.
nextItem(c, result) ==
    [calls[c] EXCEPT !.results = Append(@, result),
                     !.i = @ + 1,
                     !.pc = IF calls[c].i = Len(calls[c].items) THEN "returned" ELSE "find"]

(* ---- checkAvailability ---- *)

\* One availability decision: the if-chain of the loop body.
availabilityResult(item, product) ==
    IF product = NoProduct
    THEN [productId |-> item.productId, available |-> FALSE,
          reason |-> "Product not found"]
    ELSE IF product.isActive # 1
    THEN [productId |-> item.productId, available |-> FALSE,
          reason |-> "Product is not active"]
    ELSE IF product.stockQuantity < item.quantity
    THEN [productId |-> item.productId, available |-> FALSE,
          reason |-> "Insufficient stock", requested |-> item.quantity,
          currentStock |-> product.stockQuantity]
    ELSE [productId |-> item.productId, available |-> TRUE,
          requested |-> item.quantity,
          currentStock |-> product.stockQuantity]

\* Faulty variant: a missing product aborts the batch instead of continuing.
afterNotFound_Abort(c, result) == [calls[c] EXCEPT !.pc = "thrown"]

\* What the loop does after pushing a result for a missing product: continue.
afterNotFound(c, result) == nextItem(c, result)

StartCheck(c, items, alone) ==
    /\ calls[c].pc = "idle"
    /\ alone => InFlight = {}
    /\ calls' = [calls EXCEPT ![c] = startCall("check", Null, items)]
    /\ UNCHANGED <<products, seedStock, stockMovements, gatewayVars, rpcVars, sagaVars, statusVars>>

\* Faulty variant: an availability check that takes what it finds available.
CheckItem_Reserving(c) ==
    /\ calls[c].op = "check" /\ calls[c].pc = "find"
    /\ LET product == findFirst(curItem(c).productId)
           result == availabilityResult(curItem(c), product)
       IN  /\ calls' = [calls EXCEPT ![c] = nextItem(c, result)]
           /\ products' = IF result.available
                          THEN [products EXCEPT ![curItem(c).productId].stockQuantity =
                                    @ - curItem(c).quantity]
                          ELSE products
    /\ UNCHANGED <<seedStock, stockMovements, gatewayVars, rpcVars, sagaVars, statusVars>>

\* One loop iteration of checkAvailability: await findFirst, push the result.
CheckItem(c) ==
    /\ calls[c].op = "check" /\ calls[c].pc = "find"
    /\ LET product == findFirst(curItem(c).productId)
           result == availabilityResult(curItem(c), product)
       IN  calls' = [calls EXCEPT ![c] =
                        IF product = NoProduct THEN afterNotFound(c, result)
                        ELSE nextItem(c, result)]
    /\ UNCHANGED <<products, seedStock, stockMovements, gatewayVars, rpcVars, sagaVars, statusVars>>

(* ---- reserveStock ---- *)

\* Faulty variant: the guard forgets the stock comparison.
reserveRejects_NoStockGuard(product, quantity) == product = NoProduct

\* Faulty variant: the guard also rejects a request for exactly the stock at hand.
reserveRejects_OffByOne(product, quantity) ==
    product = NoProduct \/ product.stockQuantity <= quantity

\* if (!product || product.stockQuantity < item.quantity) throw
reserveRejects(product, quantity) ==
    product = NoProduct \/ product.stockQuantity < quantity

\* const newStock = previousStock - item.quantity
reserveNewStock(previousStock, quantity) == previousStock - quantity

StartReserve(c, orderId, items, alone) ==
    /\ calls[c].pc = "idle"
    /\ alone => InFlight = {}
    /\ calls' = [calls EXCEPT ![c] = startCall("reserve", orderId, items)]
    /\ UNCHANGED <<products, seedStock, stockMovements, gatewayVars, rpcVars, sagaVars, statusVars>>

\* await findFirst, the guard, and the two local constants.
ReserveFind(c) ==
    /\ calls[c].op = "reserve" /\ calls[c].pc = "find"
    /\ LET product == findFirst(curItem(c).productId)
           quantity == curItem(c).quantity
       IN  calls' = [calls EXCEPT ![c] =
                IF reserveRejects(product, quantity)
                THEN [@ EXCEPT !.pc = "thrown", !.product = product]
                ELSE [@ EXCEPT !.pc = "update", !.product = product,
                               !.previousStock = product.stockQuantity,
                               !.newStock = reserveNewStock(product.stockQuantity, quantity)]]
    /\ UNCHANGED <<products, seedStock, stockMovements, gatewayVars, rpcVars, sagaVars, statusVars>>

\* Faulty variant: the update applies the delta to the row's current value (a serialized,
\* atomic decrement) instead of writing the value computed from the earlier read.
stockToWrite_Atomic(c) ==
    products[curItem(c).productId].stockQuantity + (calls[c].newStock - calls[c].previousStock)

\* .set({ stockQuantity: newStock }): the value computed from this call's own read
stockToWrite(c) == calls[c].newStock

\* await db.update(products).set({ stockQuantity: newStock }).where(id = productId)
updateStock(c) ==
    /\ calls[c].pc = "update"
    /\ products' = [products EXCEPT ![curItem(c).productId].stockQuantity = stockToWrite(c)]
    /\ calls' = [calls EXCEPT ![c].pc = "insert"]
    /\ UNCHANGED <<seedStock, stockMovements, gatewayVars, rpcVars, sagaVars, statusVars>>

ReserveUpdate(c) == calls[c].op = "reserve" /\ updateStock(c)

\* Faulty variant: the OUT movement records the quantity unsigned.
reserveMovement_Unsigned(c) ==
    [productId |-> curItem(c).productId, movementType |-> "OUT",
     quantity |-> curItem(c).quantity,
     previousStock |-> calls[c].previousStock, newStock |-> calls[c].newStock,
     reason |-> "Stock reserved for order", orderId |-> calls[c].orderId]

\* db.insert(stockMovements).values({...}) of reserveStock
reserveMovement(c) ==
    [productId |-> curItem(c).productId, movementType |-> "OUT",
     quantity |-> 0 - curItem(c).quantity,
     previousStock |-> calls[c].previousStock, newStock |-> calls[c].newStock,
     reason |-> "Stock reserved for order", orderId |-> calls[c].orderId]

\* await db.insert(stockMovements), then reservationResults.push
ReserveInsert(c) ==
    /\ calls[c].op = "reserve" /\ calls[c].pc = "insert"
    /\ stockMovements' = Append(stockMovements, reserveMovement(c))
    /\ calls' = [calls EXCEPT ![c] =
            nextItem(c, [productId |-> curItem(c).productId,
                         quantity |-> curItem(c).quantity,
                         previousStock |-> calls[c].previousStock,
                         newStock |-> calls[c].newStock])]
    /\ UNCHANGED <<products, seedStock, gatewayVars, rpcVars, sagaVars, statusVars>>

(* ---- releaseStock ---- *)

\* Faulty variant: release computes the new stock without adding the quantity.
releaseNewStock_NoIncrement(previousStock, quantity) == previousStock

\* const newStock = previousStock + item.quantity
releaseNewStock(previousStock, quantity) == previousStock + quantity

StartRelease(c, orderId, items, alone) ==
    /\ calls[c].pc = "idle"
    /\ alone => InFlight = {}
    /\ calls' = [calls EXCEPT ![c] = startCall("release", orderId, items)]
    /\ UNCHANGED <<products, seedStock, stockMovements, gatewayVars, rpcVars, sagaVars, statusVars>>

ReleaseFind(c) ==
    /\ calls[c].op = "release" /\ calls[c].pc = "find"
    /\ LET product == findFirst(curItem(c).productId)
           quantity == curItem(c).quantity
       IN  calls' = [calls EXCEPT ![c] =
                IF product = NoProduct
                THEN [@ EXCEPT !.pc = "thrown", !.product = product]
                ELSE [@ EXCEPT !.pc = "update", !.product = product,
                               !.previousStock = product.stockQuantity,
                               !.newStock = releaseNewStock(product.stockQuantity, quantity)]]
    /\ UNCHANGED <<products, seedStock, stockMovements, gatewayVars, rpcVars, sagaVars, statusVars>>

ReleaseUpdate(c) == calls[c].op = "release" /\ updateStock(c)

releaseMovement(c) ==
    [productId |-> curItem(c).productId, movementType |-> "IN",
     quantity |-> curItem(c).quantity,
     previousStock |-> calls[c].previousStock, newStock |-> calls[c].newStock,
     reason |-> "Stock released from cancelled order", orderId |-> calls[c].orderId]

ReleaseInsert(c) ==
    /\ calls[c].op = "release" /\ calls[c].pc = "insert"
    /\ stockMovements' = Append(stockMovements, releaseMovement(c))
    /\ calls' = [calls EXCEPT ![c] =
            nextItem(c, [productId |-> curItem(c).productId,
                         quantity |-> curItem(c).quantity,
                         previousStock |-> calls[c].previousStock,
                         newStock |-> calls[c].newStock])]
    /\ UNCHANGED <<products, seedStock, gatewayVars, rpcVars, sagaVars, statusVars>>

\* The caller is done with the call (the consumer acks the message, the route
\* replies): the invocation's locals are gone.
Finish(c) ==
    /\ calls[c].pc \in {"returned", "thrown"}
    /\ calls' = [calls EXCEPT ![c] = [IdleCall EXCEPT !.pc = "done"]]
    /\ UNCHANGED <<products, seedStock, stockMovements, gatewayVars, rpcVars, sagaVars, statusVars>>

LedgerStep(lists, alone) ==
    \/ \E c \in CallIds, items \in lists : StartCheck(c, items, alone)
    \/ \E c \in CallIds : CheckItem(c)
    \/ \E c \in CallIds, items \in lists : StartReserve(c, OrderIdSeq[c], items, alone)
    \/ \E c \in CallIds : ReserveFind(c)
    \/ \E c \in CallIds : ReserveUpdate(c)
    \/ \E c \in CallIds : ReserveInsert(c)
    \/ \E c \in CallIds, items \in lists : StartRelease(c, OrderIdSeq[c], items, alone)
    \/ \E c \in CallIds : ReleaseFind(c)
    \/ \E c \in CallIds : ReleaseUpdate(c)
    \/ \E c \in CallIds : ReleaseInsert(c)
    \/ \E c \in CallIds : Finish(c)

\* Handlers run concurrently: any call may start while others are suspended.
NextLedger == LedgerStep(ConcurrentItemLists, FALSE)

\* One call at a time, as a single caller awaiting each call issues them.
NextLedgerSeq == LedgerStep(ItemLists, TRUE)


(***************************************************************************)
(* API gateway: idempotencyPreHandler and POST /api/sales                  *)
(***************************************************************************)
IDEMPOTENCY_TTL == 3600
MaxKeyLength == 255

NoHeader == [absent |-> TRUE]
\* An Idempotency-Key header value: its text, its length, and whether it is empty
\* after trim().
HeaderValues ==
    { [text |-> "key-A", length |-> 5, blank |-> FALSE],
      [text |-> "key-B", length |-> 5, blank |-> FALSE],
      [text |-> "", length |-> 0, blank |-> TRUE],
      [text |-> " ", length |-> 1, blank |-> TRUE],
      [text |-> "long", length |-> MaxKeyLength + 1, blank |-> FALSE] }
CacheKeys == {h.text : h \in HeaderValues}
ReqIds == 1..MaxRequests

\* Faulty variant: a key of blanks passes (no trim()).
isValidIdempotencyKey_NoTrim(key) ==
    ~(key.length = 0 \/ key.length > MaxKeyLength)

\* !key || key.trim() === '' || key.length > 255
isValidIdempotencyKey(key) ==
    ~(key.length = 0 \/ key.blank \/ key.length > MaxKeyLength)

NoEntry == [entry |-> FALSE]
Malformed == [garbage |-> TRUE]
ParseError == [parseError |-> TRUE]
JSONstringify(value) == [json |-> value]
JSONparse(string) == IF "json" \in DOMAIN string THEN string.json ELSE ParseError

\* redis.get(cacheKey): the stored string, or null
redisGet(key) == IF redis[key] = NoEntry THEN NoEntry ELSE redis[key].value

\* redis.setex(cacheKey, seconds, value)
redisSetex(key, seconds, value) == [redis EXCEPT ![key] = [ttl |-> seconds, value |-> value]]

NoReply == [sent |-> FALSE]
NoResponse == [received |-> FALSE]

NewRequest ==
    [pc |-> "idle", header |-> NoHeader, hasBody |-> FALSE, idempotencyKey |-> Null,
     wrapped |-> FALSE, cachedResponse |-> "none", response |-> NoResponse,
     reply |-> NoReply, setex |-> 0]

InitGateway ==
    /\ redis = [k \in CacheKeys |-> NoEntry]
    /\ salesOrders = {}
    /\ requests = [r \in ReqIds |-> NewRequest]

\* A client sends POST /api/sales.
Receive(r, header, hasBody) ==
    /\ requests[r].pc = "idle"
    /\ requests' = [requests EXCEPT ![r].pc = "preHandler", ![r].header = header,
                                    ![r].hasBody = hasBody]
    /\ UNCHANGED <<redis, salesOrders, ledgerVars, rpcVars, sagaVars, statusVars>>

\* Faulty variant: the replay forgets the replay marker.
replay_NoMarker(cached) ==
    [sent |-> TRUE, statusCode |-> cached.statusCode, headers |-> cached.headers,
     body |-> cached.body]

\* reply.header('X-Idempotent-Replay', 'true'); reply.status().headers().send(body)
replay(cached) ==
    [sent |-> TRUE, statusCode |-> cached.statusCode,
     headers |-> cached.headers \cup {"X-Idempotent-Replay: true"},
     body |-> cached.body]

\* Faulty variant: the pre-handler ignores a cached record and lets the handler run.
onCacheLookup_IgnoresRecord(r, key, cachedString) ==
    [requests[r] EXCEPT !.pc = "handler", !.idempotencyKey = key, !.wrapped = TRUE,
                        !.cachedResponse = "miss"]

\* Faulty variant: a cached string that cannot be parsed ends the request with 500.
onCacheLookup_FailsOnMalformed(r, key, cachedString) ==
    IF cachedString = NoEntry
    THEN [requests[r] EXCEPT !.pc = "handler", !.idempotencyKey = key, !.wrapped = TRUE,
                             !.cachedResponse = "miss"]
    ELSE IF JSONparse(cachedString) = ParseError
    THEN [requests[r] EXCEPT !.pc = "done", !.idempotencyKey = key,
                             !.cachedResponse = "malformed",
                             !.reply = [sent |-> TRUE, statusCode |-> 500, headers |-> {},
                                        body |-> [error |-> "Internal Server Error"]]]
    ELSE [requests[r] EXCEPT !.pc = "done", !.idempotencyKey = key,
                             !.cachedResponse = "hit",
                             !.reply = replay(JSONparse(cachedString))]

\* What the pre-handler does with the string redis.get returned for a valid key.
onCacheLookup(r, key, cachedString) ==
    IF cachedString # NoEntry /\ JSONparse(cachedString) # ParseError
    THEN [requests[r] EXCEPT !.pc = "done", !.idempotencyKey = key,
                             !.cachedResponse = "hit",
                             !.reply = replay(JSONparse(cachedString))]
    ELSE [requests[r] EXCEPT !.pc = "handler", !.idempotencyKey = key, !.wrapped = TRUE,
                             !.cachedResponse =
                                 IF cachedString = NoEntry THEN "miss" ELSE "malformed"]

\* idempotencyPreHandler, up to the point where the route handler takes over.
\* redisFails: redis.get rejects (connection error).
PreHandler(r, redisFails) ==
    /\ requests[r].pc = "preHandler"
    /\ LET header == requests[r].header IN
       requests' = [requests EXCEPT ![r] =
           IF header = NoHeader
           THEN [@ EXCEPT !.pc = "handler"]
           ELSE IF ~isValidIdempotencyKey(header)
           THEN [@ EXCEPT !.pc = "done",
                          !.reply = [sent |-> TRUE, statusCode |-> 400, headers |-> {},
                                     body |-> "Invalid Idempotency-Key format"]]
           ELSE IF redisFails
           THEN [@ EXCEPT !.pc = "handler", !.idempotencyKey = header.text,
                          !.wrapped = TRUE, !.cachedResponse = "error"]
           ELSE onCacheLookup(r, header.text, redisGet(header.text))]
    /\ UNCHANGED <<redis, salesOrders, ledgerVars, rpcVars, sagaVars, statusVars>>

\* The sales service's answers to POST /orders, as the gateway sees them:
\* 201 with the new order, 400 (unavailable items), 500 before anything was
\* persisted, 500 after the Order row was persisted.
UpstreamOutcomes == {"created", "unavailable", "failed", "failedAfterInsert"}
upstreamStatus(outcome) ==
    CASE outcome = "created" -> 201
      [] outcome = "unavailable" -> 400
      [] OTHER -> 500
upstreamBody(r, outcome) ==
    CASE outcome = "created" -> [orderId |-> r, status |-> "Pending Shipment"]
      [] outcome = "unavailable" -> [error |-> "Order cannot be processed"]
      [] OTHER -> [error |-> "Failed to create order"]
upstreamPersists(outcome) == outcome \in {"created", "failedAfterInsert"}

\* Faulty variant: reply.send is wrapped before the header is looked at.
shouldCache_Unwrapped(r, statusCode) == statusCode >= 200 /\ statusCode < 300

\* Faulty variant: the wrapped reply.send caches whatever the status code is.
shouldCache_AnyStatus(r, statusCode) == requests[r].wrapped

\* reply.send caches when it is the wrapper the pre-handler installed and
\* reply.statusCode >= 200 && reply.statusCode < 300
shouldCache(r, statusCode) ==
    requests[r].wrapped /\ statusCode >= 200 /\ statusCode < 300

\* The wrapped reply.send: cache a 2xx reply under the key, then send it.
\* redisFails: the setex is lost (Redis unavailable).
sendReply(r, statusCode, headers, body, redisFails) ==
    LET caches == shouldCache(r, statusCode)
        stored == JSONstringify([statusCode |-> statusCode, headers |-> headers,
                                 body |-> body])
    IN  /\ requests' = [requests EXCEPT
                ![r].pc = "done",
                ![r].reply = [sent |-> TRUE, statusCode |-> statusCode,
                              headers |-> headers, body |-> body],
                ![r].setex = IF caches THEN @ + 1 ELSE @]
        /\ redis' = IF caches /\ ~redisFails
                    THEN redisSetex(requests[r].idempotencyKey, IDEMPOTENCY_TTL, stored)
                    ELSE redis

\* Route handler, first half: reject an empty body, else fetch POST /orders from the
\* sales service, which acts on it. fetchThrows: the fetch rejects.
Handler(r, outcome, fetchThrows) ==
    /\ requests[r].pc = "handler"
    /\ IF ~requests[r].hasBody
       THEN /\ sendReply(r, 400, {}, [error |-> "Request body is required"], FALSE)
            /\ UNCHANGED salesOrders
       ELSE IF fetchThrows
       THEN /\ sendReply(r, 500, {}, [error |-> "Error processing request"], FALSE)
            /\ UNCHANGED salesOrders
       ELSE /\ requests' = [requests EXCEPT ![r].pc = "respond",
                    ![r].response = [received |-> TRUE,
                                     status |-> upstreamStatus(outcome),
                                     body |-> upstreamBody(r, outcome)]]
            /\ salesOrders' = IF upstreamPersists(outcome)
                              THEN salesOrders \cup
                                   {[orderId |-> r, key |-> requests[r].idempotencyKey]}
                              ELSE salesOrders
            /\ UNCHANGED redis
    /\ UNCHANGED <<ledgerVars, rpcVars, sagaVars, statusVars>>

\* Route handler, second half: forward the upstream response through reply.send.
Respond(r, redisFails) ==
    /\ requests[r].pc = "respond"
    /\ sendReply(r, requests[r].response.status,
                 IF requests[r].idempotencyKey # Null
                 THEN {"X-Idempotent-Key: " \o requests[r].idempotencyKey}
                 ELSE {},
                 requests[r].response.body, redisFails)
    /\ UNCHANGED <<salesOrders, ledgerVars, rpcVars, sagaVars, statusVars>>

\* The record's TTL (IDEMPOTENCY_TTL seconds) runs out.
Expire(k) ==
    /\ redis[k] # NoEntry
    /\ redis' = [redis EXCEPT ![k] = NoEntry]
    /\ UNCHANGED <<salesOrders, requests, ledgerVars, rpcVars, sagaVars, statusVars>>

\* The cache keys under which something that is not JSON may turn up.
CorruptKeys == {"key-A"}

\* Something that is not JSON is found under a cache key that holds no record.
CorruptRecord(k) ==
    /\ redis[k] = NoEntry
    /\ redis' = [redis EXCEPT ![k] = [ttl |-> IDEMPOTENCY_TTL, value |-> Malformed]]
    /\ UNCHANGED <<salesOrders, requests, ledgerVars, rpcVars, sagaVars, statusVars>>

NextGateway ==
    \/ \E k \in CorruptKeys : CorruptRecord(k)
    \/ \E r \in ReqIds, h \in HeaderValues \cup {NoHeader}, b \in BOOLEAN : Receive(r, h, b)
    \/ \E r \in ReqIds, f \in BOOLEAN : PreHandler(r, f)
    \/ \E r \in ReqIds, o \in UpstreamOutcomes, t \in BOOLEAN : Handler(r, o, t)
    \/ \E r \in ReqIds, f \in BOOLEAN : Respond(r, f)
    \/ \E k \in CacheKeys : Expire(k)


(***************************************************************************)
(* Sales service: checkInventory over inventory_check_queue /              *)
(* inventory_response_queue                                                *)
(***************************************************************************)
CorrIds == 1..MaxRpc

\* A checkInventory call: its promise (state, reason), how often resolve/reject
\* were invoked on it, how often its Map entry was deleted, how many replies the
\* responder sent for it, and its timer.
NewRpc ==
    [state |-> "unused", reason |-> Null, settles |-> 0, deletes |-> 0,
     replies |-> 0, timer |-> "none"]

InitRpc ==
    /\ pendingInventoryRequests = {}
    /\ rpc = [c \in CorrIds |-> NewRpc]
    /\ inventory_check_queue = <<>>
    /\ inventory_response_queue = <<>>

\* resolve(response) / reject(error) invoked on the call's promise: only the first
\* invocation settles it.
settle(call, state, reason) ==
    [call EXCEPT !.settles = @ + 1,
                 !.state = IF call.state = "pending" THEN state ELSE @,
                 !.reason = IF call.state = "pending" THEN reason ELSE @]

\* checkInventory(items): the promise executor. sendThrows: channel.sendToQueue
\* throws (closed channel), which rejects the promise before the timer is set.
checkInventory(c, sendThrows) ==
    /\ rpc[c].state = "unused"
    /\ pendingInventoryRequests' = pendingInventoryRequests \cup {c}
    /\ IF sendThrows
       THEN /\ rpc' = [rpc EXCEPT ![c] = settle([@ EXCEPT !.state = "pending"],
                                                "rejected", "Channel closed")]
            /\ UNCHANGED inventory_check_queue
       ELSE /\ rpc' = [rpc EXCEPT ![c].state = "pending", ![c].timer = "armed"]
            /\ inventory_check_queue' =
                   Append(inventory_check_queue, [correlationId |-> c])
    /\ UNCHANGED <<inventory_response_queue, ledgerVars, gatewayVars, sagaVars, statusVars>>

\* Faulty variant: the timer rejects without looking the entry up.
timerFinds_Always(c) == TRUE

\* Faulty variant: the timer never finds the entry, so it never rejects.
timerFinds_Never(c) == FALSE

\* The timer guard: if (pendingInventoryRequests.has(correlationId))
timerFinds(c) == c \in pendingInventoryRequests

\* The setTimeout callback, 10 s after the request was published.
TimerFire(c) ==
    /\ rpc[c].timer = "armed"
    /\ IF timerFinds(c)
       THEN /\ pendingInventoryRequests' = pendingInventoryRequests \ {c}
            /\ rpc' = [rpc EXCEPT ![c] =
                   [settle(@, "rejected", "Inventory check timeout")
                       EXCEPT !.timer = "fired", !.deletes = @ + 1]]
       ELSE /\ rpc' = [rpc EXCEPT ![c].timer = "fired"]
            /\ UNCHANGED pendingInventoryRequests
    /\ UNCHANGED <<inventory_check_queue, inventory_response_queue, ledgerVars, gatewayVars, sagaVars, statusVars>>

\* The responder of the stock-check protocol answers a published request with
\* {correlationId, available, items}; at-least-once delivery may repeat a reply.
Reply(c) ==
    /\ \E k \in 1..Len(inventory_check_queue) : inventory_check_queue[k].correlationId = c
    /\ rpc[c].replies < MaxReplies
    /\ rpc' = [rpc EXCEPT ![c].replies = @ + 1]
    /\ inventory_response_queue' =
           Append(inventory_response_queue,
                  JSONstringify([correlationId |-> c, available |-> TRUE]))
    /\ UNCHANGED <<pendingInventoryRequests, inventory_check_queue, ledgerVars, gatewayVars, sagaVars, statusVars>>

\* Something that is not JSON arrives on the response queue.
GarbageReply ==
    /\ \A k \in 1..Len(inventory_response_queue) : inventory_response_queue[k] # Malformed
    /\ Len(inventory_response_queue) < MaxReplies
    /\ inventory_response_queue' = Append(inventory_response_queue, Malformed)
    /\ UNCHANGED <<pendingInventoryRequests, rpc, inventory_check_queue, ledgerVars, gatewayVars, sagaVars, statusVars>>

\* Faulty variant: the consumer resolves without looking the entry up.
consumerFinds_Always(c) == TRUE

\* The consumer guard: if (pendingInventoryRequests.has(correlationId))
consumerFinds(c) == c \in pendingInventoryRequests

\* channel.ack(msg): the broker drops the delivered message.
ack(queue) == Tail(queue)

\* The inventory_response_queue consumer, on the message at the head of the queue.
ConsumeResponse ==
    /\ inventory_response_queue # <<>>
    /\ LET response == JSONparse(Head(inventory_response_queue)) IN
       IF response # ParseError /\ consumerFinds(response.correlationId)
       THEN /\ pendingInventoryRequests' =
                   pendingInventoryRequests \ {response.correlationId}
            /\ rpc' = [rpc EXCEPT ![response.correlationId] =
                   [settle(@, "resolved", "reply") EXCEPT !.deletes = @ + 1]]
       ELSE UNCHANGED <<pendingInventoryRequests, rpc>>
    /\ inventory_response_queue' = ack(inventory_response_queue)
    /\ UNCHANGED <<inventory_check_queue, ledgerVars, gatewayVars, sagaVars, statusVars>>

NextRpc ==
    \/ \E c \in CorrIds, t \in BOOLEAN : checkInventory(c, t)
    \/ \E c \in CorrIds : TimerFire(c)
    \/ \E c \in CorrIds : Reply(c)
    \/ GarbageReply
    \/ ConsumeResponse

(***************************************************************************)
(* Sales service: POST /orders (the order saga) and the inventory          *)
(* service's stock_reservation_queue consumer                              *)
(***************************************************************************)
SagaIds == 1..MaxSagas

\* The unit price the client quotes for a product (request input).
unitPrice(productId) == IF productId = "prod-001" THEN 10 ELSE 25

\* Number.prototype.toFixed(2) of a whole amount: the digits, then ".00".
toFixed2(n) == [digits |-> n, decimals |-> "00"]

\* items.reduce((sum, item) => sum + item.quantity * item.unitPrice, 0)
RECURSIVE totalAmount(_)
totalAmount(items) ==
    IF items = <<>> THEN 0
    ELSE Head(items).quantity * unitPrice(Head(items).productId) + totalAmount(Tail(items))

\* db.insert(...).returning() has not run yet
NoOrder == [inserted |-> FALSE]

\* A POST /orders request: its position, its body, its locals, its reply, and what
\* the handler has logged having done so far.
NewSaga ==
    [pc |-> "idle", items |-> <<>>, orderId |-> Null, newOrder |-> NoOrder,
     reply |-> NoReply, publishError |-> FALSE, log |-> <<>>]

InitSaga ==
    /\ orders = <<>>
    /\ orderItems = {}
    /\ sagas = [r \in SagaIds |-> NewSaga]
    /\ stock_reservation_queue = <<>>
    /\ delivery_queue = <<>>

\* POST /check-availability as the order route sees it: the per-item results of
\* checkAvailability, whether all are available, and the unavailable ones.
inventoryResponse(items) ==
    LET results == [k \in 1..Len(items) |->
                       availabilityResult(items[k], findFirst(items[k].productId))]
    IN  [available |-> \A k \in 1..Len(items) : results[k].available,
         items |-> results,
         unavailableItems |-> SelectSeq(results, LAMBDA res : ~res.available)]

\* catch (error): reply.status(500).send({ error: 'Failed to create order' })
failedToCreate(saga) ==
    [saga EXCEPT !.pc = "done",
                 !.reply = [sent |-> TRUE, statusCode |-> 500,
                            body |-> [error |-> "Failed to create order"]]]

\* The row db.insert(schema.orders) writes for a request.
newOrder(orderId, items) ==
    [id |-> orderId, status |-> "Pending Shipment",
     totalAmount |-> toFixed2(totalAmount(items))]

\* The rows db.insert(schema.orderItems) writes for a request.
orderItemRows(orderId, items) ==
    {[line |-> k, orderId |-> orderId, productId |-> items[k].productId,
      quantity |-> items[k].quantity,
      unitPrice |-> toFixed2(unitPrice(items[k].productId)),
      totalPrice |-> toFixed2(items[k].quantity * unitPrice(items[k].productId))]
        : k \in 1..Len(items)}

\* Faulty variant: the route goes on whatever the availability check reported.
afterCheck_Proceeds(saga, response) ==
    [saga EXCEPT !.pc = "insertOrder", !.log = Append(@, "availability checked")]

\* if (!inventoryResponse.available) { reply.status(400).send(...); return }
afterCheck(saga, response) ==
    IF ~response.available
    THEN [saga EXCEPT !.pc = "done",
                      !.log = Append(@, "availability checked"),
                      !.reply = [sent |-> TRUE, statusCode |-> 400,
                                 body |-> [error |-> "Order cannot be processed due to product availability issues",
                                           unavailableProducts |-> response.unavailableItems]]]
    ELSE [saga EXCEPT !.pc = "insertOrder", !.log = Append(@, "availability checked")]

\* A client sends POST /orders with the given lines (schema: quantity >= 1).
PostOrders(r, items) ==
    /\ sagas[r].pc = "idle"
    /\ sagas' = [sagas EXCEPT ![r].pc = "checkAvailability", ![r].items = items]
    /\ UNCHANGED <<orders, orderItems, stock_reservation_queue, delivery_queue,
                   ledgerVars, gatewayVars, rpcVars, statusVars>>

\* Faulty variant: a failed availability check is taken for "all available".
SagaCheckAvailability_Optimistic(r, fetchThrows) ==
    /\ sagas[r].pc = "checkAvailability"
    /\ LET response == inventoryResponse(sagas[r].items) IN
       sagas' = [sagas EXCEPT ![r] =
           IF fetchThrows \/ sagas[r].items = <<>>
           THEN [@ EXCEPT !.pc = "insertOrder"]
           ELSE afterCheck(@, response)]
    /\ UNCHANGED <<orders, orderItems, stock_reservation_queue, delivery_queue,
                   ledgerVars, gatewayVars, rpcVars, statusVars>>

\* Step 1: await inventoryClient.checkAvailability. fetchThrows: the HTTP call
\* fails; an empty items array is answered 400 by the inventory route, which the
\* client turns into an error as well.
SagaCheckAvailability(r, fetchThrows) ==
    /\ sagas[r].pc = "checkAvailability"
    /\ LET response == inventoryResponse(sagas[r].items) IN
       sagas' = [sagas EXCEPT ![r] =
           IF fetchThrows \/ sagas[r].items = <<>>
           THEN failedToCreate(@)
           ELSE afterCheck(@, response)]
    /\ UNCHANGED <<orders, orderItems, stock_reservation_queue, delivery_queue,
                   ledgerVars, gatewayVars, rpcVars, statusVars>>

\* Step 3: orderId = randomUUID(); await db.insert(schema.orders).
SagaInsertOrder(r, dbThrows) ==
    /\ sagas[r].pc = "insertOrder"
    /\ IF dbThrows
       THEN /\ sagas' = [sagas EXCEPT ![r] = failedToCreate(@)]
            /\ UNCHANGED orders
       ELSE /\ sagas' = [sagas EXCEPT ![r].pc = "insertItems",
                                      ![r].orderId = OrderIdSeq[r],
                                      ![r].newOrder = newOrder(OrderIdSeq[r], sagas[r].items),
                                      ![r].log = Append(@, "order persisted")]
            /\ orders' = Append(orders, newOrder(OrderIdSeq[r], sagas[r].items))
    /\ UNCHANGED <<orderItems, stock_reservation_queue, delivery_queue,
                   ledgerVars, gatewayVars, rpcVars, statusVars>>

\* Step 4: await db.insert(schema.orderItems), a second statement of its own.
SagaInsertItems(r, dbThrows) ==
    /\ sagas[r].pc = "insertItems"
    /\ IF dbThrows
       THEN /\ sagas' = [sagas EXCEPT ![r] = failedToCreate(@)]
            /\ UNCHANGED orderItems
       ELSE /\ sagas' = [sagas EXCEPT ![r].pc = "reserveStock",
                                      ![r].log = Append(@, "lines persisted")]
            /\ orderItems' = orderItems \cup orderItemRows(sagas[r].orderId, sagas[r].items)
    /\ UNCHANGED <<orders, stock_reservation_queue, delivery_queue,
                   ledgerVars, gatewayVars, rpcVars, statusVars>>

\* Faulty variant: a failed reservation send is swallowed and the saga goes on.
SagaReserveStock_Swallows(r, sendThrows) ==
    /\ sagas[r].pc = "reserveStock"
    /\ sagas' = [sagas EXCEPT ![r].pc = "publishOrderEvent",
                              ![r].log = IF sendThrows THEN @
                                         ELSE Append(@, "reservation sent")]
    /\ stock_reservation_queue' =
           IF sendThrows THEN stock_reservation_queue
           ELSE Append(stock_reservation_queue,
                       JSONstringify([orderId |-> sagas[r].orderId,
                                      items |-> sagas[r].items]))
    /\ UNCHANGED <<orders, orderItems, delivery_queue,
                   ledgerVars, gatewayVars, rpcVars, statusVars>>

\* Faulty variant: a failed reservation send deletes the order's lines and row
\* before the request is answered.
SagaReserveStock_Compensates(r, sendThrows) ==
    /\ sagas[r].pc = "reserveStock"
    /\ IF sendThrows
       THEN /\ sagas' = [sagas EXCEPT ![r] = failedToCreate(@)]
            /\ orders' = SelectSeq(orders, LAMBDA row : row.id # sagas[r].orderId)
            /\ orderItems' = {row \in orderItems : row.orderId # sagas[r].orderId}
            /\ UNCHANGED stock_reservation_queue
       ELSE /\ sagas' = [sagas EXCEPT ![r].pc = "publishOrderEvent",
                                      ![r].log = Append(@, "reservation sent")]
            /\ stock_reservation_queue' =
                   Append(stock_reservation_queue,
                          JSONstringify([orderId |-> sagas[r].orderId,
                                         items |-> sagas[r].items]))
            /\ UNCHANGED <<orders, orderItems>>
    /\ UNCHANGED <<delivery_queue, ledgerVars, gatewayVars, rpcVars, statusVars>>

\* Step 5: await app.rabbitmq.reserveStock(orderId, inventoryItems); an error of
\* sendToQueue is rethrown into the route's catch.
SagaReserveStock(r, sendThrows) ==
    /\ sagas[r].pc = "reserveStock"
    /\ IF sendThrows
       THEN /\ sagas' = [sagas EXCEPT ![r] = failedToCreate(@)]
            /\ UNCHANGED stock_reservation_queue
       ELSE /\ sagas' = [sagas EXCEPT ![r].pc = "publishOrderEvent",
                                      ![r].log = Append(@, "reservation sent")]
            /\ stock_reservation_queue' =
                   Append(stock_reservation_queue,
                          JSONstringify([orderId |-> sagas[r].orderId,
                                         items |-> sagas[r].items]))
    /\ UNCHANGED <<orders, orderItems, delivery_queue,
                   ledgerVars, gatewayVars, rpcVars, statusVars>>

\* Faulty variant: a publish error is rethrown into the route's catch.
afterPublish_Rethrows(saga, sendThrows) ==
    IF sendThrows
    THEN failedToCreate([saga EXCEPT !.publishError = TRUE])
    ELSE [saga EXCEPT !.pc = "done",
                      !.log = Append(@, "announcement published"),
                      !.reply = [sent |-> TRUE, statusCode |-> 201,
                                 body |-> [orderId |-> saga.newOrder.id,
                                           status |-> saga.newOrder.status,
                                           totalAmount |-> saga.newOrder.totalAmount]]]

\* After step 6: a publish error is logged and swallowed; reply 201 either way.
afterPublish(saga, sendThrows) ==
    [saga EXCEPT !.pc = "done",
                 !.publishError = sendThrows,
                 !.log = IF sendThrows THEN @ ELSE Append(@, "announcement published"),
                 !.reply = [sent |-> TRUE, statusCode |-> 201,
                            body |-> [orderId |-> saga.newOrder.id,
                                      status |-> saga.newOrder.status,
                                      totalAmount |-> saga.newOrder.totalAmount]]]

\* Step 6: await app.rabbitmq.publishOrderEvent(newOrder) inside its own try,
\* then reply 201.
SagaPublishOrderEvent(r, sendThrows) ==
    /\ sagas[r].pc = "publishOrderEvent"
    /\ sagas' = [sagas EXCEPT ![r] = afterPublish(@, sendThrows)]
    /\ delivery_queue' =
           IF sendThrows THEN delivery_queue
           ELSE Append(delivery_queue,
                       JSONstringify([type |-> "ORDER_CREATED",
                                      orderId |-> sagas[r].newOrder.id,
                                      totalAmount |-> sagas[r].newOrder.totalAmount]))
    /\ UNCHANGED <<orders, orderItems, stock_reservation_queue,
                   ledgerVars, gatewayVars, rpcVars, statusVars>>

\* The stock_reservation_queue consumer takes the next message and calls
\* inventoryService.reserveStock(orderId, items); it acks when the call is over.
ConsumeReservation(c) ==
    /\ stock_reservation_queue # <<>>
    /\ calls[c].pc = "idle"
    /\ LET message == JSONparse(Head(stock_reservation_queue)) IN
       calls' = [calls EXCEPT ![c] = startCall("reserve", message.orderId, message.items)]
    /\ stock_reservation_queue' = Tail(stock_reservation_queue)
    /\ UNCHANGED <<products, seedStock, stockMovements, orders, orderItems, sagas,
                   delivery_queue, gatewayVars, rpcVars, statusVars>>

SagaStep(ids, lists) ==
    \/ \E r \in ids, items \in lists : PostOrders(r, items)
    \/ \E r \in ids, t \in BOOLEAN : SagaCheckAvailability(r, t)
    \/ \E r \in ids, t \in BOOLEAN : SagaInsertOrder(r, t)
    \/ \E r \in ids, t \in BOOLEAN : SagaInsertItems(r, t)
    \/ \E r \in ids, t \in BOOLEAN : SagaReserveStock(r, t)
    \/ \E r \in ids, t \in BOOLEAN : SagaPublishOrderEvent(r, t)

NextSaga ==
    \/ SagaStep(SagaIds, SagaItemLists)
    \/ \E c \in CallIds : ConsumeReservation(c)
    \/ \E c \in CallIds : ReserveFind(c)
    \/ \E c \in CallIds : ReserveUpdate(c)
    \/ \E c \in CallIds : ReserveInsert(c)
    \/ \E c \in CallIds : Finish(c)

(***************************************************************************)
(* Status propagation: delivery-service consumer, createDelivery,          *)
(* updateDeliveryStatus, PATCH /deliveries/:id/status; sales-service       *)
(* order_status_queue consumer and PATCH /orders/:orderId/status           *)
(***************************************************************************)
orderStatusEnum == {"Pending Shipment", "Shipped", "Delivered", "Cancelled"}
deliveryStatusEnum == {"PENDING", "IN_TRANSIT", "DELIVERED", "FAILED"}
\* the values updateOrderStatusSchema lets through
updateOrderStatusEnum == {"Pending Shipment", "Shipped", "Delivered"}

\* Bodies a client may send as { status }: the valid values of either route, an
\* unknown value, and none at all.
StatusInputs == deliveryStatusEnum \cup orderStatusEnum \cup {"RETURNED", Null}
\* The orders created when the status flow is explored, and their one body.
StatusSagaIds == 1..MaxStatusOrders
StatusItemLists == {<<[productId |-> "prod-001", quantity |-> 1]>>}
\* Ids a client may name: those of the rows that can exist, and one that cannot.
DeliveryIdInputs == 1..(MaxStatusOrders + 1)
OrderIdInputs == {OrderIdSeq[r] : r \in StatusSagaIds} \cup {"order-404"}

NoRequest == [received |-> FALSE]

\* statusCalls: the continuations suspended at an await (inFlight), the number of
\* PATCH requests received so far, the latest of them and the reply to it, and the
\* number of 'Error processing delivery status update' lines the sales service
\* has logged; disposition is what the delivery_queue consumer did with the latest
\* message it took: "ack" or "nack".
InitStatus ==
    /\ deliveries = <<>>
    /\ order_status_queue = <<>>
    /\ statusCalls = [inFlight |-> {}, count |-> 0, request |-> NoRequest,
                      reply |-> NoReply, errors |-> 0, disposition |-> "none"]

\* Faulty variant: the message always announces PENDING, whatever was stored.
statusMessage_Pending(orderId, status, deliveryId, timestamp) ==
    [type |-> "DELIVERY_STATUS_UPDATE", orderId |-> orderId, status |-> "PENDING",
     deliveryId |-> deliveryId, timestamp |-> timestamp]

\* The DELIVERY_STATUS_UPDATE message publishStatusUpdate builds.
statusMessage(orderId, status, deliveryId, timestamp) ==
    [type |-> "DELIVERY_STATUS_UPDATE", orderId |-> orderId, status |-> status,
     deliveryId |-> deliveryId, timestamp |-> timestamp]

\* Faulty variant: the consumer creates a delivery whatever the message type is.
ConsumeOrderCreated_AnyType(dbThrows) ==
    /\ delivery_queue # <<>>
    /\ LET message == JSONparse(Head(delivery_queue)) IN
       IF message = ParseError \/ dbThrows
       THEN /\ statusCalls' = [statusCalls EXCEPT !.disposition = "nack"]
            /\ UNCHANGED deliveries
       ELSE /\ deliveries' = Append(deliveries,
                                    [orderId |-> message.orderId, status |-> "PENDING"])
            /\ statusCalls' = [statusCalls EXCEPT
                   !.disposition = "ack",
                   !.inFlight = @ \cup
                       {[kind |-> "publish",
                         message |-> statusMessage(message.orderId, "PENDING",
                                                   Len(deliveries) + 1, 0)]}]
    /\ delivery_queue' = Tail(delivery_queue)
    /\ UNCHANGED <<orders, orderItems, sagas, stock_reservation_queue,
                   order_status_queue, ledgerVars, gatewayVars, rpcVars>>

\* The delivery_queue consumer: JSON.parse, then switch (message.type). On
\* ORDER_CREATED createDelivery inserts the row with status PENDING and goes on to
\* publish that status; ORDER_CANCELLED and unknown types are only logged; then
\* channel.ack(msg). When JSON.parse or the insert throws (dbThrows), the catch
\* calls channel.nack(msg, false, false).
ConsumeOrderCreated(dbThrows) ==
    /\ delivery_queue # <<>>
    /\ LET message == JSONparse(Head(delivery_queue)) IN
       IF message = ParseError
       THEN /\ statusCalls' = [statusCalls EXCEPT !.disposition = "nack"]
            /\ UNCHANGED deliveries
       ELSE IF message.type # "ORDER_CREATED"
       THEN /\ statusCalls' = [statusCalls EXCEPT !.disposition = "ack"]
            /\ UNCHANGED deliveries
       ELSE IF dbThrows
       THEN /\ statusCalls' = [statusCalls EXCEPT !.disposition = "nack"]
            /\ UNCHANGED deliveries
       ELSE /\ deliveries' = Append(deliveries,
                                    [orderId |-> message.orderId, status |-> "PENDING"])
            /\ statusCalls' = [statusCalls EXCEPT
                   !.disposition = "ack",
                   !.inFlight = @ \cup
                       {[kind |-> "publish",
                         message |-> statusMessage(message.orderId, "PENDING",
                                                   Len(deliveries) + 1, 0)]}]
    /\ delivery_queue' = Tail(delivery_queue)
    /\ UNCHANGED <<orders, orderItems, sagas, stock_reservation_queue,
                   order_status_queue, ledgerVars, gatewayVars, rpcVars>>

\* At-least-once delivery: the broker delivers the announcement at the head of
\* delivery_queue once more.
RedeliverAnnouncement ==
    /\ delivery_queue # <<>>
    /\ Len(deliveries) + Len(delivery_queue) < MaxDeliveryRows
    /\ delivery_queue' = Append(delivery_queue, Head(delivery_queue))
    /\ UNCHANGED <<orders, orderItems, sagas, stock_reservation_queue, deliveries,
                   order_status_queue, statusCalls, ledgerVars, gatewayVars, rpcVars>>

\* Messages on delivery_queue that are not announcements of a new order: a
\* cancellation, a type the consumer does not know, and content that is not JSON.
ForeignMessages ==
    { JSONstringify([type |-> "ORDER_CANCELLED", orderId |-> OrderIdSeq[1]]),
      JSONstringify([type |-> "ORDER_ARCHIVED", orderId |-> OrderIdSeq[1]]),
      Malformed }

\* Such a message arrives on delivery_queue.
ForeignMessage(m) ==
    /\ Len(deliveries) + Len(delivery_queue) < MaxDeliveryRows
    /\ \A k \in 1..Len(delivery_queue) : delivery_queue[k] # m
    /\ delivery_queue' = Append(delivery_queue, m)
    /\ UNCHANGED <<orders, orderItems, sagas, stock_reservation_queue, deliveries,
                   order_status_queue, statusCalls, ledgerVars, gatewayVars, rpcVars>>

\* Faulty variant: a publish error is rethrown, so that the route answers 500.
PublishStatusUpdate_Rethrows(p, sendThrows) ==
    /\ p \in statusCalls.inFlight /\ p.kind = "publish"
    /\ statusCalls' = [statusCalls EXCEPT
           !.inFlight = @ \ {p},
           !.reply = IF sendThrows THEN [sent |-> TRUE, statusCode |-> 500] ELSE @]
    /\ order_status_queue' =
           IF sendThrows THEN order_status_queue
           ELSE Append(order_status_queue, JSONstringify(p.message))
    /\ UNCHANGED <<deliveries, sagaVars, ledgerVars, gatewayVars, rpcVars>>

\* await fastify.rabbitmq.publishStatusUpdate(orderId, status, deliveryId), the
\* continuation of createDelivery / updateDeliveryStatus; an error is only logged.
PublishStatusUpdate(p, sendThrows) ==
    /\ p \in statusCalls.inFlight /\ p.kind = "publish"
    /\ statusCalls' = [statusCalls EXCEPT !.inFlight = @ \ {p}]
    /\ order_status_queue' =
           IF sendThrows THEN order_status_queue
           ELSE Append(order_status_queue, JSONstringify(p.message))
    /\ UNCHANGED <<deliveries, sagaVars, ledgerVars, gatewayVars, rpcVars>>

\* Faulty variant: the route accepts any status value.
isDeliveryStatus_Any(status) == TRUE

\* ['PENDING', 'IN_TRANSIT', 'DELIVERED', 'FAILED'].includes(status)
isDeliveryStatus(status) == status \in deliveryStatusEnum

\* db.update(deliveries).set({ status }).where(eq(deliveries.id, id))
updateDeliveryStatus(id, status) ==
    [d \in DOMAIN deliveries |->
        IF d = id THEN [deliveries[d] EXCEPT !.status = status] ELSE deliveries[d]]

\* PATCH /deliveries/:id/status with body { status }.
PatchDeliveryStatus(id, status) ==
    /\ statusCalls.count < MaxStatusCalls
    /\ LET n == statusCalls.count + 1
           request == [route |-> "deliveries", id |-> id, status |-> status]
       IN
       IF ~isDeliveryStatus(status)
       THEN /\ statusCalls' = [statusCalls EXCEPT
                   !.count = @ + 1, !.request = request,
                   !.reply = [sent |-> TRUE, statusCode |-> 400]]
            /\ UNCHANGED deliveries
       ELSE IF id \in DOMAIN deliveries
       THEN /\ deliveries' = updateDeliveryStatus(id, status)
            /\ statusCalls' = [statusCalls EXCEPT
                   !.count = @ + 1, !.request = request,
                   !.reply = [sent |-> TRUE, statusCode |-> 200],
                   !.inFlight = @ \cup
                       {[kind |-> "publish",
                         message |-> statusMessage(deliveries[id].orderId, status, id, n)]}]
       ELSE /\ statusCalls' = [statusCalls EXCEPT
                   !.count = @ + 1, !.request = request,
                   !.reply = [sent |-> TRUE, statusCode |-> 404]]
            /\ UNCHANGED deliveries
    /\ UNCHANGED <<order_status_queue, sagaVars, ledgerVars, gatewayVars, rpcVars>>

\* db.update(orders).set({ status }).where(eq(orders.id, orderId))
updateOrderStatus(orderId, status) ==
    [k \in DOMAIN orders |->
        IF orders[k].id = orderId THEN [orders[k] EXCEPT !.status = status] ELSE orders[k]]

\* PATCH /orders/:orderId/status with body { status }; the route's schema lets
\* only the values of updateOrderStatusSchema through.
PatchOrderStatus(orderId, status) ==
    /\ statusCalls.count < MaxStatusCalls
    /\ LET request == [route |-> "orders", orderId |-> orderId, status |-> status] IN
       IF status \notin updateOrderStatusEnum
       THEN /\ statusCalls' = [statusCalls EXCEPT
                   !.count = @ + 1, !.request = request,
                   !.reply = [sent |-> TRUE, statusCode |-> 400]]
            /\ UNCHANGED orders
       ELSE IF orderId \in {orders[k].id : k \in DOMAIN orders}
       THEN /\ orders' = updateOrderStatus(orderId, status)
            /\ statusCalls' = [statusCalls EXCEPT
                   !.count = @ + 1, !.request = request,
                   !.reply = [sent |-> TRUE, statusCode |-> 200]]
       ELSE /\ statusCalls' = [statusCalls EXCEPT
                   !.count = @ + 1, !.request = request,
                   !.reply = [sent |-> TRUE, statusCode |-> 404]]
            /\ UNCHANGED orders
    /\ UNCHANGED <<deliveries, order_status_queue, orderItems, sagas,
                   stock_reservation_queue, delivery_queue,
                   ledgerVars, gatewayVars, rpcVars>>

\* The order_status_queue consumer takes the next message, parses it and issues
\* the update of the order row.
\* Faulty variant: a message that cannot be parsed is put back on the queue.
dropMalformed_Requeue(queue) == Append(Tail(queue), Head(queue))

\* catch (error) { channel.ack(msg) }: the message is gone from the queue
dropMalformed(queue) == Tail(queue)

\* JSON.parse throws on content that is not JSON: the catch acks the message and
\* nothing else happens.
ConsumeStatus ==
    /\ order_status_queue # <<>>
    /\ LET parsed == JSONparse(Head(order_status_queue)) IN
       IF parsed = ParseError
       THEN /\ order_status_queue' = dropMalformed(order_status_queue)
            /\ statusCalls' = [statusCalls EXCEPT !.errors = @ + 1]
       ELSE /\ statusCalls' = [statusCalls EXCEPT !.inFlight = @ \cup
                   {[kind |-> "update", message |-> parsed]}]
            /\ order_status_queue' = Tail(order_status_queue)
    /\ UNCHANGED <<deliveries, sagaVars, ledgerVars, gatewayVars, rpcVars>>

\* Something that is not JSON arrives on order_status_queue.
GarbageStatus ==
    /\ statusCalls.errors < MaxGarbage
    /\ \A k \in 1..Len(order_status_queue) : order_status_queue[k] # Malformed
    /\ order_status_queue' = Append(order_status_queue, Malformed)
    /\ UNCHANGED <<deliveries, statusCalls, sagaVars, ledgerVars, gatewayVars, rpcVars>>

\* Faulty variant: only an order that is still Pending Shipment takes the value.
statusToStore_FirstWins(current, received) ==
    IF current = "Pending Shipment" THEN received ELSE current

\* .set({ status }): the received value, as it is
statusToStore(current, received) == received

\* The consumer's db.update takes effect; the message is acked.
ApplyStatus(u) ==
    /\ u \in statusCalls.inFlight /\ u.kind = "update"
    /\ orders' = [k \in DOMAIN orders |->
           IF orders[k].id = u.message.orderId
           THEN [orders[k] EXCEPT !.status = statusToStore(@, u.message.status)]
           ELSE orders[k]]
    /\ statusCalls' = [statusCalls EXCEPT !.inFlight = @ \ {u}]
    /\ UNCHANGED <<deliveries, order_status_queue, orderItems, sagas,
                   stock_reservation_queue, delivery_queue,
                   ledgerVars, gatewayVars, rpcVars>>

NextStatus ==
    \/ SagaStep(StatusSagaIds, StatusItemLists)
    \/ \E t \in BOOLEAN : ConsumeOrderCreated(t)
    \/ \E p \in statusCalls.inFlight, t \in BOOLEAN : PublishStatusUpdate(p, t)
    \/ \E id \in DeliveryIdInputs, status \in StatusInputs : PatchDeliveryStatus(id, status)
    \/ \E id \in OrderIdInputs, status \in StatusInputs : PatchOrderStatus(id, status)
    \/ ConsumeStatus
    \/ \E u \in statusCalls.inFlight : ApplyStatus(u)

\* The delivery-service consumer with one order, its announcement delivered once
\* or more often, and other messages on delivery_queue.
NextDelivery ==
    \/ SagaStep(StatusSagaIds, StatusItemLists)
    \/ RedeliverAnnouncement
    \/ \E m \in ForeignMessages : ForeignMessage(m)
    \/ \E t \in BOOLEAN : ConsumeOrderCreated(t)
    \/ \E p \in statusCalls.inFlight, t \in BOOLEAN : PublishStatusUpdate(p, t)

\* The broker delivers the reservation message at the head of the queue once
\* more (at-least-once delivery: a message is redelivered when its ack was lost).
RedeliverReservation ==
    /\ stock_reservation_queue # <<>>
    /\ Len(stock_reservation_queue) < MaxCalls
    /\ stock_reservation_queue' =
            Append(stock_reservation_queue, Head(stock_reservation_queue))
    /\ UNCHANGED <<orders, orderItems, sagas, delivery_queue,
                   ledgerVars, gatewayVars, rpcVars, statusVars>>

\* Order bodies whose lines ask for one unit each.
UnitItemLists == SeqsUpTo([productId : SeededIds, quantity : {1}], MaxItems)

\* One order, its reservation message, and the message delivered again.
NextRedelivery ==
    \/ SagaStep(StatusSagaIds, UnitItemLists)
    \/ RedeliverReservation
    \/ \E c \in CallIds : ConsumeReservation(c)
    \/ \E c \in CallIds : ReserveFind(c)
    \/ \E c \in CallIds : ReserveUpdate(c)
    \/ \E c \in CallIds : ReserveInsert(c)
    \/ \E c \in CallIds : Finish(c)

\* Status propagation when no message is lost: every publish succeeds, every
\* insert succeeds, nothing but status messages is on order_status_queue.
NextConvergence ==
    \/ SagaStep(StatusSagaIds, StatusItemLists)
    \/ ConsumeOrderCreated(FALSE)
    \/ \E p \in statusCalls.inFlight : PublishStatusUpdate(p, FALSE)
    \/ \E id \in DeliveryIdInputs, status \in deliveryStatusEnum :
          PatchDeliveryStatus(id, status)
    \/ ConsumeStatus
    \/ \E u \in statusCalls.inFlight : ApplyStatus(u)

\* The sales-service consumer with two orders, their deliveries, status changes of
\* the deliveries and unparseable messages.
NextConsumer ==
    \/ SagaStep(SagaIds, StatusItemLists)
    \/ \E t \in BOOLEAN : ConsumeOrderCreated(t)
    \/ \E p \in statusCalls.inFlight, t \in BOOLEAN : PublishStatusUpdate(p, t)
    \/ \E id \in 1..MaxSagas, status \in deliveryStatusEnum :
          statusCalls.count < MaxConsumerCalls /\ PatchDeliveryStatus(id, status)
    \/ GarbageStatus
    \/ ConsumeStatus
    \/ \E u \in statusCalls.inFlight : ApplyStatus(u)

(***************************************************************************)
(* Specifications                                                          *)
(***************************************************************************)
\* The ledger at rest, for the specifications of the other components.
LedgerAtRest ==
    /\ products = [p \in SeededIds |-> [stockQuantity |-> MaxStock, isActive |-> 1]]
    /\ seedStock = [p \in SeededIds |-> MaxStock]
    /\ stockMovements = <<>>
    /\ calls = [c \in CallIds |-> IdleCall]

LedgerInit == InitLedger /\ InitGateway /\ InitRpc /\ InitSaga /\ InitStatus
OthersInit == LedgerAtRest /\ InitGateway /\ InitRpc /\ InitSaga /\ InitStatus

LedgerSpec == LedgerInit /\ [][NextLedger]_vars
LedgerSeqSpec == LedgerInit /\ [][NextLedgerSeq]_vars
GatewaySpec == OthersInit /\ [][NextGateway]_vars
RpcSpec == OthersInit /\ [][NextRpc]_vars
RedeliverySpec == OthersInit /\ [][NextRedelivery]_vars
SagaSpec == OthersInit /\ [][NextSaga]_vars
StatusSpec == OthersInit /\ [][NextStatus]_vars
ConvergenceSpec == OthersInit /\ [][NextConvergence]_vars
DeliverySpec == OthersInit /\ [][NextDelivery]_vars
ConsumerSpec == OthersInit /\ [][NextConsumer]_vars
\* The broker delivers every queued message and every awaited call completes.
ConsumerFairSpec ==
    /\ ConsumerSpec
    /\ WF_vars(ConsumeStatus)
    /\ WF_vars(\E u \in statusCalls.inFlight : ApplyStatus(u))
StatusFairSpec ==
    /\ StatusSpec
    /\ WF_vars(ConsumeStatus)
    /\ WF_vars(\E u \in statusCalls.inFlight : ApplyStatus(u))
    /\ WF_vars(\E p \in statusCalls.inFlight, t \in BOOLEAN : PublishStatusUpdate(p, t))
\* The event loop runs every timer that is due and every delivered message.
RpcFairSpec ==
    /\ RpcSpec
    /\ \A c \in CorrIds : WF_vars(TimerFire(c))
    /\ WF_vars(ConsumeResponse)

(***************************************************************************)
(* Properties of the stock ledger                                          *)
(***************************************************************************)
RECURSIVE SumDeltas(_, _)
SumDeltas(movements, p) ==
    IF movements = <<>> THEN 0
    ELSE (IF Head(movements).productId = p THEN Head(movements).quantity ELSE 0)
         + SumDeltas(Tail(movements), p)

movementsOf(orderId) == SelectSeq(stockMovements, LAMBDA m : m.orderId = orderId)

\* C6: ledger replay. Whenever no call is in flight, every product's stock
\* quantity equals its seeded quantity plus the sum of the deltas of all Movements
\* recorded for it. (Stated for quiescent states only: between a call's stock
\* update and its movement insert the two differ even without concurrency.)
C6_LedgerReplay ==
    InFlight = {} =>
        \A p \in DOMAIN products :
            products[p].stockQuantity = seedStock[p] + SumDeltas(stockMovements, p)

\* C7: the stock quantity of every product is never negative, under every
\* interleaving of reserveStock and releaseStock calls with positive quantities.
C7_StockNeverNegative ==
    \A p \in DOMAIN products : products[p].stockQuantity >= 0

\* C7 witness: a reservation has taken a product's stock down to exactly zero.
C7_Witness ==
    \E c \in CallIds :
        /\ calls[c].op = "reserve" /\ calls[c].pc = "returned"
        /\ calls[c].results[1].newStock = 0
        /\ products[calls[c].results[1].productId].stockQuantity = 0

\* C8: reservations are not serialized. The stock a reservation writes is the
\* quantity this call read earlier minus its own quantity, whatever any other call
\* wrote to the row in between; so two reservations that read the same quantity
\* both succeed.
C8_WriteFromStaleRead ==
    [][\A c \in CallIds :
          ReserveUpdate(c) =>
              products'[curItem(c).productId].stockQuantity
                  = calls[c].previousStock - curItem(c).quantity]_vars

\* C8 witness: two reservations of one product both read the same stock, both
\* succeeded, and their combined quantity exceeds the stock they read.
C8_Oversubscribed ==
    \E c1, c2 \in CallIds :
        /\ c1 # c2
        /\ calls[c1].op = "reserve" /\ calls[c1].pc = "returned"
        /\ calls[c2].op = "reserve" /\ calls[c2].pc = "returned"
        /\ calls[c1].results[1].productId = calls[c2].results[1].productId
        /\ calls[c1].results[1].previousStock = calls[c2].results[1].previousStock
        /\ calls[c1].results[1].quantity + calls[c2].results[1].quantity
              > calls[c1].results[1].previousStock

\* The case of C9: call r, now finished, was a reservation that recorded the single
\* Movement -q for product p; call c, issued after it with nothing in between, is a
\* release of the single item (p, q) and has returned.
C9_Case(r, c) ==
    /\ r # c
    /\ calls[r].pc = "done"
    /\ \A d \in CallIds \ {r, c} : calls[d].pc = "idle"
    /\ calls[c].op = "release" /\ calls[c].pc = "returned"
    /\ Len(calls[c].items) = 1
    /\ Len(movementsOf(OrderIdSeq[r])) = 1
    /\ movementsOf(OrderIdSeq[r])[1].movementType = "OUT"
    /\ movementsOf(OrderIdSeq[r])[1].productId = calls[c].items[1].productId
    /\ movementsOf(OrderIdSeq[r])[1].quantity = 0 - calls[c].items[1].quantity

\* C9: reserve of q followed by release of q for the same product, nothing in
\* between, returns the stock to its value before the reserve and leaves exactly
\* two Movements, -q then +q.
C9_RoundTrip ==
    \A r, c \in CallIds :
        C9_Case(r, c) =>
            LET p == calls[c].items[1].productId
                q == calls[c].items[1].quantity
            IN  /\ Len(stockMovements) = 2
                /\ stockMovements[1].productId = p /\ stockMovements[1].quantity = 0 - q
                /\ stockMovements[2].productId = p /\ stockMovements[2].quantity = q
                /\ stockMovements[2].newStock = stockMovements[1].previousStock
                /\ products[p].stockQuantity = stockMovements[1].previousStock
                /\ products[p].stockQuantity = seedStock[p]

\* C9 witness: the round trip has happened.
C9_Witness == \E r, c \in CallIds : C9_Case(r, c)

\* The availability decision the claim prescribes for one item, by precedence.
C10_Decides(item, result) ==
    /\ result.productId = item.productId
    /\ IF item.productId \notin DOMAIN products
       THEN result.available = FALSE /\ result.reason = "Product not found"
       ELSE IF products[item.productId].isActive # 1
       THEN result.available = FALSE /\ result.reason = "Product is not active"
       ELSE IF products[item.productId].stockQuantity < item.quantity
       THEN result.available = FALSE /\ result.reason = "Insufficient stock"
       ELSE result.available = TRUE

\* C10: checkAvailability returns exactly one result per requested item, in
\* request order, decided by the precedence missing / inactive / insufficient /
\* available; a missing product does not abort the batch.
C10_CheckAvailability ==
    \A c \in CallIds :
        calls[c].op = "check" =>
            /\ calls[c].pc # "thrown"
            /\ Len(calls[c].results) = calls[c].i - 1
            /\ calls[c].pc = "returned" => Len(calls[c].results) = Len(calls[c].items)
            /\ \A k \in 1..Len(calls[c].results) :
                   C10_Decides(calls[c].items[k], calls[c].results[k])

\* C10 witness: a returned batch whose first product is missing and whose second
\* item was still evaluated and found available.
C10_Witness ==
    \E c \in CallIds :
        /\ calls[c].op = "check" /\ calls[c].pc = "returned"
        /\ Len(calls[c].items) = 2
        /\ calls[c].items[1].productId \notin DOMAIN products
        /\ calls[c].results[2].available = TRUE

\* C11: checkAvailability is a pure read. No step of a checkAvailability call
\* (entry, a loop iteration, return), for any items including quantities above
\* the stock, changes a product's stock quantity or active flag or the Movements.
C11_PureRead ==
    [][\A c \in CallIds :
          ((calls[c].op = "check" \/ calls'[c].op = "check") /\ calls'[c] # calls[c])
              => (products' = products /\ stockMovements' = stockMovements)]_vars

\* C11 witness: a two-item check has returned, one item found available and one
\* refused for insufficient stock.
C11_Witness ==
    \E c \in CallIds :
        /\ calls[c].op = "check" /\ calls[c].pc = "returned"
        /\ Len(calls[c].results) = 2
        /\ \E k \in 1..2 : calls[c].results[k].available
        /\ \E k \in 1..2 : /\ ~calls[c].results[k].available
                            /\ calls[c].results[k].reason = "Insufficient stock"
                            /\ calls[c].results[k].requested > calls[c].results[k].currentStock

\* The guard the claim prescribes for reserving item: product missing or stock
\* below the requested quantity.
C12_MustFail(item) ==
    \/ item.productId \notin DOMAIN products
    \/ products[item.productId].stockQuantity < item.quantity

\* The Movements of the order of call c are exactly the decrements of its first n
\* items, in order.
C12_RecordedPrefix(c, n) ==
    LET ms == movementsOf(calls[c].orderId) IN
    /\ Len(ms) = n
    /\ \A k \in 1..n : /\ ms[k].productId = calls[c].items[k].productId
                       /\ ms[k].quantity = 0 - calls[c].items[k].quantity
                       /\ ms[k].newStock = ms[k].previousStock - calls[c].items[k].quantity

\* C12: reserveStock, called on its own, throws exactly when it reaches an item
\* whose product is missing or whose stock is below the requested quantity. After
\* the throw the failing item and all later ones have no Movement and no
\* decrement, while the earlier items keep theirs: the stock of every product is
\* its seeded quantity plus the deltas of the recorded Movements (no rollback).
C12_ReserveFailure ==
    /\ [][\A c \in CallIds :
            (calls[c].op = "reserve" /\ calls[c].pc = "find" /\ calls'[c] # calls[c])
                => (calls'[c].pc = "thrown" <=> C12_MustFail(curItem(c)))]_vars
    /\ [](\A c \in CallIds :
            (calls[c].op = "reserve" /\ calls[c].pc = "thrown") =>
                /\ C12_MustFail(curItem(c))
                /\ C12_RecordedPrefix(c, calls[c].i - 1)
                /\ \A p \in DOMAIN products :
                       products[p].stockQuantity
                           = seedStock[p] + SumDeltas(stockMovements, p))

\* C12 witness: a two-item reservation decremented its first item and then threw
\* on the second; the first item's decrement and Movement are still there.
C12_Witness ==
    \E c \in CallIds :
        /\ calls[c].op = "reserve" /\ calls[c].pc = "thrown"
        /\ calls[c].i = 2
        /\ Len(movementsOf(calls[c].orderId)) = 1
        /\ products[calls[c].items[1].productId].stockQuantity
               = seedStock[calls[c].items[1].productId] - calls[c].items[1].quantity

(***************************************************************************)
(* Properties of the idempotency cache                                     *)
(***************************************************************************)
\* Request r is in the pre-handler with a valid key whose Completed record is in
\* the cache and can be parsed.
CompletedRecordFor(r) ==
    /\ requests[r].pc = "preHandler"
    /\ requests[r].header # NoHeader
    /\ isValidIdempotencyKey(requests[r].header)
    /\ redisGet(requests[r].header.text) # NoEntry
    /\ JSONparse(redisGet(requests[r].header.text)) # ParseError

\* Request r leaves the pre-handler in this step and its cache lookup did not fail.
LooksUp(r) ==
    /\ requests[r].pc = "preHandler"
    /\ requests'[r].pc # "preHandler"
    /\ requests'[r].cachedResponse # "error"

\* C1 as claimed: at most one Order row is ever created for one idempotency key.
C1_AtMostOneOrderPerKey ==
    \A k \in CacheKeys : Cardinality({o \in salesOrders : o.key = k}) <= 1

\* C1 as amended: once a Completed record for a key is in the cache (unexpired and
\* readable), a request with that key is finished by the pre-handler and creates
\* no Order row; no Order row is ever created by a request that was answered from
\* the cache.
C1_CompletedKeyNotReexecuted ==
    /\ [](\A o \in salesOrders : requests[o.orderId].cachedResponse # "hit")
    /\ [][\A r \in ReqIds :
             CompletedRecordFor(r) /\ LooksUp(r) =>
                 requests'[r].pc = "done" /\ salesOrders' = salesOrders]_vars

\* C1 witness: a request was answered from the record of a key for which another
\* request had created an Order row.
C1_Witness ==
    \E r \in ReqIds :
        /\ requests[r].cachedResponse = "hit"
        /\ \E o \in salesOrders : o.key = requests[r].idempotencyKey /\ o.orderId # r

\* C2: replay. A request whose key has a Completed record is answered with exactly
\* the stored status code, headers and body plus X-Idempotent-Replay: true; the
\* route handler does not run (nothing is fetched) and nothing is written to the
\* cache.
C2_Replay ==
    [][\A r \in ReqIds :
          CompletedRecordFor(r) /\ LooksUp(r) =>
              LET stored == JSONparse(redisGet(requests[r].header.text)) IN
              /\ requests'[r].reply =
                     [sent |-> TRUE, statusCode |-> stored.statusCode,
                      headers |-> stored.headers \cup {"X-Idempotent-Replay: true"},
                      body |-> stored.body]
              /\ requests'[r].response = NoResponse
              /\ requests'[r].setex = 0
              /\ redis' = redis]_vars

\* C2 witness: a 201 was replayed.
C2_Witness ==
    \E r \in ReqIds :
        /\ requests[r].cachedResponse = "hit"
        /\ requests[r].reply.statusCode = 201
        /\ "X-Idempotent-Replay: true" \in requests[r].reply.headers

(***************************************************************************)
(* Properties of the correlated RPC                                        *)
(***************************************************************************)
\* C3: a pending entry is resolved exactly once. For every correlation id,
\* resolve/reject is invoked at most once and the entry is deleted at most once;
\* the entry is deleted exactly when a reply or the timeout settled the call.
C3_ResolvedOnce ==
    \A c \in CorrIds :
        /\ rpc[c].settles <= 1
        /\ rpc[c].deletes <= 1
        /\ c \in pendingInventoryRequests => rpc[c].deletes = 0
        /\ rpc[c].deletes = 1 <=>
               (rpc[c].state = "resolved"
                \/ (rpc[c].state = "rejected" /\ rpc[c].reason = "Inventory check timeout"))

\* C3 witness: the reply won the race and the timer fired afterwards.
C3_Witness ==
    \E c \in CorrIds : rpc[c].state = "resolved" /\ rpc[c].timer = "fired"

\* C4 as claimed: a stock-check call settles either with a reply or with
\* 'Inventory check timeout'.
C4_ReplyOrTimeoutOnly ==
    \A c \in CorrIds :
        rpc[c].state = "rejected" => rpc[c].reason = "Inventory check timeout"

\* C4 as amended: every call whose request was published eventually settles, with
\* a reply or with 'Inventory check timeout', and its entry is then removed.
C4_PublishedCallSettles ==
    /\ \A c \in CorrIds :
           (rpc[c].timer = "armed") ~>
               (rpc[c].state \in {"resolved", "rejected"} /\ c \notin pendingInventoryRequests)
    /\ [](\A c \in CorrIds :
             rpc[c].timer # "none" /\ rpc[c].state = "rejected" =>
                 rpc[c].reason = "Inventory check timeout")

\* C4 witness: a call timed out without any reply having been sent.
C4_Witness ==
    \E c \in CorrIds :
        /\ rpc[c].state = "rejected" /\ rpc[c].reason = "Inventory check timeout"
        /\ rpc[c].replies = 0
        /\ c \notin pendingInventoryRequests

\* The reply at the head of the response queue names no pending entry.
HeadIsStale ==
    /\ inventory_response_queue # <<>>
    /\ \/ JSONparse(Head(inventory_response_queue)) = ParseError
       \/ JSONparse(Head(inventory_response_queue)).correlationId
              \notin pendingInventoryRequests

\* C5: consuming a reply whose correlation id is not in the pending table changes
\* neither the table nor any caller's outcome, and acknowledges the message.
C5_StaleReplyIsNoOp ==
    [][ConsumeResponse /\ HeadIsStale =>
          /\ pendingInventoryRequests' = pendingInventoryRequests
          /\ rpc' = rpc
          /\ inventory_response_queue' = Tail(inventory_response_queue)]_vars

\* C5 witness: a call timed out, its reply was sent and has been consumed.
C5_Witness ==
    \E c \in CorrIds :
        /\ rpc[c].state = "rejected" /\ rpc[c].reason = "Inventory check timeout"
        /\ rpc[c].replies >= 1
        /\ inventory_response_queue = <<>>

(***************************************************************************)
(* Properties of the order saga                                            *)
(***************************************************************************)
persistedOrderIds == {orders[k].id : k \in 1..Len(orders)}
linesOf(orderId) == {row \in orderItems : row.orderId = orderId}
queuedFor(queue, orderId) ==
    {k \in 1..Len(queue) : JSONparse(queue[k]).orderId = orderId}

\* A requested line the stock cannot serve: product missing, inactive, or short.
C13_Unavailable(item) ==
    \/ item.productId \notin DOMAIN products
    \/ products[item.productId].isActive # 1
    \/ products[item.productId].stockQuantity < item.quantity

\* C13: when the availability check reports a requested line unavailable, the
\* request is answered 400 listing exactly the unavailable lines, and that step
\* writes nothing; a request answered 400 has no Order row, no Order Line rows,
\* no reservation message, no ORDER_CREATED announcement and no Movement.
C13_UnavailableAborts ==
    /\ [][\A r \in SagaIds :
            (/\ sagas[r].pc = "checkAvailability"
             /\ sagas'[r].log # sagas[r].log
             /\ \E k \in 1..Len(sagas[r].items) : C13_Unavailable(sagas[r].items[k]))
            => /\ sagas'[r].reply.sent /\ sagas'[r].reply.statusCode = 400
               /\ LET listed == sagas'[r].reply.body.unavailableProducts
                      short == SelectSeq(sagas[r].items, C13_Unavailable)
                  IN  /\ Len(listed) = Len(short)
                      /\ \A k \in 1..Len(short) : listed[k].productId = short[k].productId
               /\ UNCHANGED <<orders, orderItems, stock_reservation_queue,
                              delivery_queue, stockMovements, products>>]_vars
    /\ [](\A r \in SagaIds :
            (sagas[r].reply.sent /\ sagas[r].reply.statusCode = 400) =>
                /\ sagas[r].pc = "done"
                /\ OrderIdSeq[r] \notin persistedOrderIds
                /\ linesOf(OrderIdSeq[r]) = {}
                /\ queuedFor(stock_reservation_queue, OrderIdSeq[r]) = {}
                /\ queuedFor(delivery_queue, OrderIdSeq[r]) = {}
                /\ \A c \in CallIds : calls[c].orderId # OrderIdSeq[r]
                /\ movementsOf(OrderIdSeq[r]) = <<>>)

\* C13 witness: a two-line order with one available and one unavailable line was
\* answered 400 listing the one unavailable line.
C13_Witness ==
    \E r \in SagaIds :
        /\ sagas[r].reply.sent /\ sagas[r].reply.statusCode = 400
        /\ Len(sagas[r].items) = 2
        /\ Len(sagas[r].reply.body.unavailableProducts) = 1

\* The order in which one order creation does its steps.
C14_StepOrder ==
    <<"availability checked", "order persisted", "lines persisted",
      "reservation sent", "announcement published">>

\* C14: the steps of one order creation happen in the order availability check,
\* persist Order and Order Lines, send reservation, publish ORDER_CREATED. Every
\* message placed on stock_reservation_queue or delivery_queue names an order
\* whose row and lines were persisted before, and an announcement is placed only
\* for an order whose reservation message was sent before.
C14_SagaOrder ==
    /\ [](\A r \in SagaIds :
            /\ Len(sagas[r].log) <= Len(C14_StepOrder)
            /\ sagas[r].log = SubSeq(C14_StepOrder, 1, Len(sagas[r].log)))
    /\ [][Len(stock_reservation_queue') > Len(stock_reservation_queue) =>
            LET message == JSONparse(stock_reservation_queue'[Len(stock_reservation_queue')])
            IN  /\ message.orderId \in persistedOrderIds
                /\ Cardinality(linesOf(message.orderId)) = Len(message.items)
                /\ \E r \in SagaIds :
                       /\ sagas[r].orderId = message.orderId
                       /\ sagas[r].log = SubSeq(C14_StepOrder, 1, 3)]_vars
    /\ [][Len(delivery_queue') > Len(delivery_queue) =>
            LET message == JSONparse(delivery_queue'[Len(delivery_queue')])
            IN  /\ message.type = "ORDER_CREATED"
                /\ message.orderId \in persistedOrderIds
                /\ linesOf(message.orderId) # {}
                /\ \E r \in SagaIds :
                       /\ sagas[r].orderId = message.orderId
                       /\ sagas[r].log = SubSeq(C14_StepOrder, 1, 4)]_vars

\* C14 witness: an order went through all steps; its announcement is queued.
C14_Witness ==
    \E r \in SagaIds :
        /\ sagas[r].log = C14_StepOrder
        /\ queuedFor(delivery_queue, sagas[r].orderId) # {}
        /\ sagas[r].orderId \in persistedOrderIds

\* C15: when publishing ORDER_CREATED fails, the request is still answered 201
\* with the order id, status and total; the step leaves the Order row, its lines
\* and the reservation message already sent as they are.
C15_PublishFailureTolerated ==
    [][\A r \in SagaIds :
          (/\ sagas[r].pc = "publishOrderEvent"
           /\ sagas'[r] # sagas[r]
           /\ delivery_queue' = delivery_queue)
          => /\ sagas'[r].reply.sent /\ sagas'[r].reply.statusCode = 201
             /\ sagas'[r].reply.body.orderId = sagas[r].orderId
             /\ sagas'[r].reply.body.status = "Pending Shipment"
             /\ sagas'[r].reply.body.totalAmount = toFixed2(totalAmount(sagas[r].items))
             /\ sagas[r].orderId \in persistedOrderIds
             /\ Cardinality(linesOf(sagas[r].orderId)) = Len(sagas[r].items)
             /\ UNCHANGED <<orders, orderItems, stock_reservation_queue>>]_vars

\* C15 witness: an order answered 201 whose announcement was never published.
C15_Witness ==
    \E r \in SagaIds :
        /\ sagas[r].pc = "done" /\ sagas[r].publishError
        /\ sagas[r].reply.statusCode = 201
        /\ sagas[r].orderId \in persistedOrderIds
        /\ queuedFor(delivery_queue, sagas[r].orderId) = {}
        /\ sagas[r].log = SubSeq(C14_StepOrder, 1, 4)

\* C16: an Order is created atomically with its Order Lines. Once a POST /orders
\* request has completed, the Order row it inserted, if any, has its line rows.
C16_OrderHasLines ==
    \A r \in SagaIds :
        (sagas[r].pc = "done" /\ OrderIdSeq[r] \in persistedOrderIds) =>
            Cardinality(linesOf(OrderIdSeq[r])) = Len(sagas[r].items)

(***************************************************************************)
(* Properties of status propagation                                        *)
(***************************************************************************)
\* The order status changes the claim allows.
C17_Allowed ==
    { <<"Pending Shipment", "Shipped">>, <<"Shipped", "Delivered">>,
      <<"Pending Shipment", "Cancelled">> }

\* C17: an order's status is always one of Pending Shipment, Shipped, Delivered,
\* Cancelled, and changes only Pending Shipment -> Shipped -> Delivered or
\* Pending Shipment -> Cancelled, whatever status messages are consumed and
\* whatever PATCH /orders/:orderId/status calls are made.
C17_OrderStatusMachine ==
    /\ [](\A k \in DOMAIN orders :
            orders[k].status \in {"Pending Shipment", "Shipped", "Delivered", "Cancelled"})
    /\ [][\A k \in DOMAIN orders :
            orders'[k].status # orders[k].status
                => <<orders[k].status, orders'[k].status>> \in C17_Allowed]_vars

\* An IN_TRANSIT update for order o is queued for the sales service.
C18_InTransitQueued(o) ==
    /\ o \in persistedOrderIds
    /\ \E k \in 1..Len(order_status_queue) :
           /\ JSONparse(order_status_queue[k]).orderId = o
           /\ JSONparse(order_status_queue[k]).status = "IN_TRANSIT"

\* The status of order o is a value of the order status enumeration that a
\* delivery update can have mapped to (anything but the initial value).
C18_Mapped(o) ==
    \E k \in DOMAIN orders :
        /\ orders[k].id = o
        /\ orders[k].status \in {"Shipped", "Delivered", "Cancelled"}

\* C18: once a delivery's change to IN_TRANSIT has been emitted for an order,
\* the order's status eventually becomes the order status mapped from IN_TRANSIT
\* (messages are delivered, awaited calls complete).
C18_StatusPropagates ==
    \A o \in OrderIdInputs : C18_InTransitQueued(o) ~> C18_Mapped(o)

\* The delivery status changes the claim allows.
C19_Allowed ==
    { <<"PENDING", "IN_TRANSIT">>, <<"IN_TRANSIT", "DELIVERED">>,
      <<"PENDING", "FAILED">>, <<"IN_TRANSIT", "FAILED">> }

\* C19: a delivery's status changes only PENDING -> IN_TRANSIT -> DELIVERED, or
\* to FAILED from PENDING or IN_TRANSIT; DELIVERED and FAILED are never left.
C19_DeliveryStatusMachine ==
    [][\A d \in DOMAIN deliveries :
          deliveries'[d].status # deliveries[d].status
              => <<deliveries[d].status, deliveries'[d].status>> \in C19_Allowed]_vars

\* C20: a PATCH /deliveries/:id/status whose status is not one of PENDING,
\* IN_TRANSIT, DELIVERED, FAILED is answered 400 and changes nothing: no delivery
\* row changes, no status message is emitted or about to be. So no delivery ever
\* carries, and no status message ever announces, a value outside the four.
C20_InvalidStatusRejected ==
    /\ [][(/\ statusCalls'.count = statusCalls.count + 1
           /\ statusCalls'.request.route = "deliveries"
           /\ statusCalls'.request.status
                  \notin {"PENDING", "IN_TRANSIT", "DELIVERED", "FAILED"})
          => /\ statusCalls'.reply.statusCode = 400
             /\ deliveries' = deliveries
             /\ order_status_queue' = order_status_queue
             /\ statusCalls'.inFlight = statusCalls.inFlight]_vars
    /\ [](/\ \A d \in DOMAIN deliveries :
                deliveries[d].status \in {"PENDING", "IN_TRANSIT", "DELIVERED", "FAILED"}
          /\ \A k \in 1..Len(order_status_queue) :
                JSONparse(order_status_queue[k]).status
                    \in {"PENDING", "IN_TRANSIT", "DELIVERED", "FAILED"})

\* C20 witness: an existing delivery was asked to become RETURNED; the call was
\* answered 400 and the delivery is still PENDING.
C20_Witness ==
    /\ statusCalls.count > 0
    /\ statusCalls.request.route = "deliveries"
    /\ statusCalls.request.status = "RETURNED"
    /\ statusCalls.request.id \in DOMAIN deliveries
    /\ statusCalls.reply.statusCode = 400
    /\ deliveries[statusCalls.request.id].status = "PENDING"

\* A step that serves one PATCH /deliveries/:id/status request.
C21_PatchStep ==
    /\ statusCalls'.count = statusCalls.count + 1
    /\ statusCalls'.request.route = "deliveries"

\* The publish continuations a step ends: their awaited publishStatusUpdate returned.
C21_Published == {p \in statusCalls.inFlight : p.kind = "publish"} \ statusCalls'.inFlight

\* C21 as stated: every successful status change of an existing delivery emits
\* exactly one DELIVERY_STATUS_UPDATE message, i.e. whenever the publish that
\* follows an update completes, its message is on order_status_queue.
C21_EveryMutationEmits ==
    [][\A p \in C21_Published :
          p.message.timestamp > 0
          => order_status_queue' = Append(order_status_queue, JSONstringify(p.message))]_vars

\* C21 (amended): a PATCH that updates an existing delivery stores the new status
\* and, in that same step and not before, schedules exactly one publish of a
\* DELIVERY_STATUS_UPDATE carrying the delivery's order id, the new status and the
\* delivery id; a PATCH answered 404 or 400 changes no row and schedules nothing.
\* A scheduled publish puts its message on order_status_queue at most once (not at
\* all when sendToQueue throws), and nothing else puts a message there.
C21_StatusUpdateEmission ==
    [][/\ C21_PatchStep =>
            LET req == statusCalls'.request
                scheduled == statusCalls'.inFlight \ statusCalls.inFlight
            IN  /\ order_status_queue' = order_status_queue
                /\ statusCalls.inFlight \subseteq statusCalls'.inFlight
                /\ IF statusCalls'.reply.statusCode = 200
                   THEN /\ req.id \in DOMAIN deliveries
                        /\ deliveries'[req.id].status = req.status
                        /\ Cardinality(scheduled) = 1
                        /\ \A p \in scheduled :
                              /\ p.kind = "publish"
                              /\ p.message.type = "DELIVERY_STATUS_UPDATE"
                              /\ p.message.orderId = deliveries[req.id].orderId
                              /\ p.message.status = req.status
                              /\ p.message.deliveryId = req.id
                   ELSE /\ req.id \notin DOMAIN deliveries \/ statusCalls'.reply.statusCode = 400
                        /\ scheduled = {}
                        /\ deliveries' = deliveries
       /\ order_status_queue' # order_status_queue /\ Len(order_status_queue') >= Len(order_status_queue)
            => \E p \in C21_Published :
                  /\ C21_Published = {p}
                  /\ order_status_queue' = Append(order_status_queue, JSONstringify(p.message))
       /\ \A p \in C21_Published :
            \/ order_status_queue' = order_status_queue
            \/ order_status_queue' = Append(order_status_queue, JSONstringify(p.message))]_vars

\* C21 witness: delivery 1 was set to IN_TRANSIT by the latest PATCH and the
\* message announcing exactly that is on order_status_queue.
C21_Witness ==
    /\ statusCalls.count > 0
    /\ statusCalls.request.route = "deliveries"
    /\ statusCalls.request.status = "IN_TRANSIT"
    /\ statusCalls.reply.statusCode = 200
    /\ statusCalls.request.id \in DOMAIN deliveries
    /\ deliveries[statusCalls.request.id].status = "IN_TRANSIT"
    /\ \E k \in 1..Len(order_status_queue) :
          LET m == JSONparse(order_status_queue[k]) IN
          /\ m.timestamp = statusCalls.count
          /\ m.status = "IN_TRANSIT"
          /\ m.deliveryId = statusCalls.request.id
          /\ m.orderId = deliveries[statusCalls.request.id].orderId

\* The update continuations a step ends: the consumer's db.update returned and
\* the message was acked.
C22_Applied == {u \in statusCalls.inFlight : u.kind = "update"} \ statusCalls'.inFlight

C23_MalformedHead ==
    /\ order_status_queue # <<>>
    /\ JSONparse(Head(order_status_queue)) = ParseError

\* The message of the first PATCH /deliveries/:id/status waits behind a message
\* that is not JSON.
C23_BehindMalformed ==
    \E j, k \in 1..Len(order_status_queue) :
        /\ j < k
        /\ JSONparse(order_status_queue[j]) = ParseError
        /\ JSONparse(order_status_queue[k]) # ParseError
        /\ JSONparse(order_status_queue[k]).timestamp = 1

\* The consumer has taken that message and issued its update.
C23_Processing ==
    \E u \in statusCalls.inFlight : u.kind = "update" /\ u.message.timestamp = 1

\* C23: a status message that cannot be parsed is acked and dropped: the step
\* that takes it off the queue changes no order and no delivery, starts no update,
\* logs one error and does not put the message back; the consumer goes on to
\* process the messages queued behind it.
C23_MalformedDropped ==
    /\ [][(/\ C23_MalformedHead
           /\ order_status_queue' # order_status_queue
           /\ ~(/\ Len(order_status_queue') = Len(order_status_queue) + 1
                 /\ SubSeq(order_status_queue', 1, Len(order_status_queue))
                        = order_status_queue))
          => /\ order_status_queue' = Tail(order_status_queue)
             /\ orders' = orders
             /\ orderItems' = orderItems
             /\ deliveries' = deliveries
             /\ statusCalls' = [statusCalls EXCEPT !.errors = @ + 1]]_vars
    /\ C23_BehindMalformed ~> C23_Processing

\* C23 witness: an unparseable message was dropped (one error logged, nothing of
\* it left on the queue), and the IN_TRANSIT message that followed was applied
\* to its order.
C23_Witness ==
    /\ statusCalls.errors = 1
    /\ order_status_queue = <<>>
    /\ statusCalls.inFlight = {}
    /\ statusCalls.count > 0
    /\ statusCalls.request.status = "IN_TRANSIT"
    /\ statusCalls.reply.statusCode = 200
    /\ \E k \in DOMAIN orders :
          /\ orders[k].id = deliveries[statusCalls.request.id].orderId
          /\ orders[k].status = "IN_TRANSIT"

(***************************************************************************)
(* Further properties of the idempotency cache                             *)
(***************************************************************************)
\* Request r is past the pre-handler.
C24_PastPreHandler(r) == requests[r].pc \in {"handler", "respond", "done"}

\* C24: a POST without an Idempotency-Key header passes through: the route
\* handler runs and its own answer is sent, the cache is never looked up and never
\* written for it, no key is attached to the request, and no step of such a
\* request changes the cache.
C24_NoHeaderPassesThrough ==
    /\ [](\A r \in ReqIds :
            requests[r].header = NoHeader /\ C24_PastPreHandler(r) =>
                /\ requests[r].cachedResponse = "none"
                /\ requests[r].setex = 0
                /\ requests[r].idempotencyKey = Null
                /\ requests[r].pc = "done" =>
                      /\ requests[r].reply.headers = {}
                      /\ IF requests[r].response # NoResponse
                         THEN /\ requests[r].reply.statusCode = requests[r].response.status
                              /\ requests[r].reply.body = requests[r].response.body
                         ELSE \/ /\ ~requests[r].hasBody
                                 /\ requests[r].reply.statusCode = 400
                                 /\ requests[r].reply.body =
                                        [error |-> "Request body is required"]
                              \/ /\ requests[r].hasBody
                                 /\ requests[r].reply.statusCode = 500)
    /\ [][\A r \in ReqIds :
             requests[r].header = NoHeader /\ requests'[r] # requests[r]
                 => /\ redis' = redis
                    /\ requests[r].pc = "preHandler" => requests'[r].pc = "handler"]_vars

\* C24 witness: a request without the header created an order and was answered
\* 201 while the cache holds nothing.
C24_Witness ==
    \E r \in ReqIds :
        /\ requests[r].header = NoHeader
        /\ requests[r].pc = "done"
        /\ requests[r].reply.statusCode = 201
        /\ \E o \in salesOrders : o.orderId = r
        /\ \A k \in CacheKeys : redis[k] = NoEntry

\* The header value h is empty, blank after trimming, or longer than 255.
C25_Invalid(h) == h.length = 0 \/ h.blank \/ h.length > 255

\* C25: a request whose Idempotency-Key header is present but empty, blank or
\* longer than 255 characters is answered 400 'Invalid Idempotency-Key format' by
\* the pre-handler itself: the route handler never runs for it (nothing fetched, no
\* order), the cache is neither looked up nor written, and no record ever exists
\* under such a key.
C25_InvalidKeyRejected ==
    /\ [](\A r \in ReqIds :
            (/\ requests[r].header # NoHeader
             /\ C25_Invalid(requests[r].header)
             /\ requests[r].pc # "preHandler")
            => /\ requests[r].pc = "done"
               /\ requests[r].reply.statusCode = 400
               /\ requests[r].reply.body = "Invalid Idempotency-Key format"
               /\ requests[r].response = NoResponse
               /\ requests[r].cachedResponse = "none"
               /\ requests[r].setex = 0
               /\ ~requests[r].wrapped
               /\ \A o \in salesOrders : o.orderId # r)
    /\ [](\A h \in HeaderValues : C25_Invalid(h) => redis[h.text] = NoEntry)
    /\ [][\A r \in ReqIds :
             (/\ requests[r].header # NoHeader
              /\ C25_Invalid(requests[r].header)
              /\ requests'[r] # requests[r])
             => redis' = redis /\ salesOrders' = salesOrders]_vars

\* C25 witness: a request with a key of blanks was answered 400.
C25_Witness ==
    \E r \in ReqIds :
        /\ requests[r].header # NoHeader
        /\ requests[r].header.blank /\ requests[r].header.length > 0
        /\ requests[r].pc = "done"
        /\ requests[r].reply.statusCode = 400

\* Request r sends its reply in this step through the wrapped reply.send.
C26_Sends(r) ==
    /\ requests[r].pc # "done" /\ requests'[r].pc = "done"
    /\ requests[r].wrapped

\* C26: the wrapped reply.send stores the response under the request's key exactly
\* when the final status code is 200..299, with an expiry of 3600 seconds and as
\* the reply's status code, headers and body; a reply with any other status code
\* leaves the cache as it was, so that a later request with that key, finding no
\* record, is passed to the route handler again.
C26_OnlySuccessCached ==
    [][/\ \A r \in ReqIds : C26_Sends(r) =>
            LET reply == requests'[r].reply
                key == requests[r].idempotencyKey
            IN  IF reply.statusCode >= 200 /\ reply.statusCode <= 299
                THEN /\ requests'[r].setex = requests[r].setex + 1
                     /\ \/ redis' = redis
                        \/ redis' = [redis EXCEPT ![key] =
                               [ttl |-> 3600,
                                value |-> JSONstringify(
                                    [statusCode |-> reply.statusCode,
                                     headers |-> reply.headers, body |-> reply.body])]]
                ELSE /\ redis' = redis
                     /\ requests'[r].setex = requests[r].setex
       /\ \A k \in CacheKeys :
            (redis'[k] # redis[k] /\ redis'[k] # NoEntry /\ redis'[k].value # Malformed)
                => \E r \in ReqIds :
                      /\ C26_Sends(r)
                      /\ requests[r].idempotencyKey = k
                      /\ requests'[r].reply.statusCode \in 200..299
       /\ \A r \in ReqIds :
            (/\ requests[r].pc = "preHandler" /\ requests'[r].pc # "preHandler"
             /\ requests[r].header # NoHeader
             /\ isValidIdempotencyKey(requests[r].header)
             /\ redis[requests[r].header.text] = NoEntry)
                => requests'[r].pc = "handler"]_vars

\* C26 witness: a request with key-A was answered 400 by the sales service, no
\* record was stored, and a later request with key-A was executed and created an
\* order.
C26_Witness ==
    \E r1, r2 \in ReqIds :
        /\ r1 # r2
        /\ requests[r1].idempotencyKey = "key-A" /\ requests[r2].idempotencyKey = "key-A"
        /\ requests[r1].pc = "done" /\ requests[r1].response # NoResponse
        /\ requests[r1].reply.statusCode = 400
        /\ requests[r1].setex = 0
        /\ requests[r2].cachedResponse = "miss"
        /\ requests[r2].pc = "done" /\ requests[r2].reply.statusCode = 201
        /\ redis["key-A"] # NoEntry
        /\ JSONparse(redis["key-A"].value).body.orderId = r2

\* C27: when the cache lookup throws, or returns something that cannot be parsed,
\* the request is passed to the route handler and the client gets the handler's
\* own response, never a replay and never an error of the cache.
C27_LookupFailureFallsThrough ==
    /\ [][\A r \in ReqIds :
             (/\ requests[r].pc = "preHandler" /\ requests'[r].pc # "preHandler"
              /\ requests'[r].cachedResponse \in {"error", "malformed"})
                 => /\ requests'[r].pc = "handler"
                    /\ requests'[r].reply = NoReply]_vars
    /\ [][\A r \in ReqIds :
             (/\ requests[r].pc = "preHandler" /\ requests'[r].pc # "preHandler"
              /\ requests[r].header # NoHeader
              /\ isValidIdempotencyKey(requests[r].header)
              /\ redis[requests[r].header.text] # NoEntry
              /\ redis[requests[r].header.text].value = Malformed)
                 => /\ requests'[r].pc = "handler"
                    /\ requests'[r].cachedResponse \in {"error", "malformed"}]_vars
    /\ [](\A r \in ReqIds :
            (requests[r].cachedResponse \in {"error", "malformed"} /\ requests[r].pc = "done")
                => /\ "X-Idempotent-Replay: true" \notin requests[r].reply.headers
                   /\ IF requests[r].response # NoResponse
                      THEN /\ requests[r].reply.statusCode = requests[r].response.status
                           /\ requests[r].reply.body = requests[r].response.body
                      ELSE requests[r].reply.body \in
                               {[error |-> "Request body is required"],
                                [error |-> "Error processing request"]})

\* C27 witness: one request found an unparseable string under its key, another
\* one's lookup threw; both were executed and answered 201 with their own order.
C27_Witness ==
    \E r1, r2 \in ReqIds :
        /\ requests[r1].cachedResponse = "malformed"
        /\ requests[r2].cachedResponse = "error"
        /\ \A r \in {r1, r2} :
              /\ requests[r].pc = "done"
              /\ requests[r].reply.statusCode = 201
              /\ requests[r].reply.body.orderId = r
              /\ \E o \in salesOrders : o.orderId = r

\* C28: an Idempotency Record is written once and never updated: while a record
\* is in the cache under a key, no step replaces it by another value; it can only
\* expire.
C28_RecordNeverUpdated ==
    [][\A k \in CacheKeys :
          (redis[k] # NoEntry /\ JSONparse(redis[k].value) # ParseError)
              => redis'[k] = redis[k] \/ redis'[k] = NoEntry]_vars

(***************************************************************************)
(* Further properties of the stock ledger                                  *)
(***************************************************************************)
\* Call c completes its db.update(products) in this step.
C29_Updates(c) == calls[c].pc = "update" /\ calls'[c].pc = "insert"

\* Call c completes its db.insert(stockMovements) in this step.
C29_Inserts(c) == calls[c].pc = "insert" /\ calls'[c] # calls[c]

\* C29: every Movement is internally consistent: newStock = previousStock +
\* quantity, where quantity is -q with type OUT for a reservation of q and +q with
\* type IN for a release of q; it carries the order id of the operation that
\* wrote it; and the stock that operation wrote to the product for that item is
\* the Movement's newStock.
C29_MovementConsistent ==
    /\ [](\A k \in 1..Len(stockMovements) :
            LET m == stockMovements[k] IN
            /\ m.newStock = m.previousStock + m.quantity
            /\ m.movementType \in {"IN", "OUT"}
            /\ m.movementType = "OUT" => m.quantity < 0
            /\ m.movementType = "IN" => m.quantity > 0)
    /\ [][\A c \in CallIds :
             C29_Updates(c) =>
                 /\ products'[curItem(c).productId].stockQuantity = calls[c].newStock
                 /\ calls'[c].newStock = calls[c].newStock
                 /\ calls'[c].previousStock = calls[c].previousStock
                 /\ calls'[c].i = calls[c].i]_vars
    /\ [][stockMovements' # stockMovements =>
             /\ Len(stockMovements') = Len(stockMovements) + 1
             /\ SubSeq(stockMovements', 1, Len(stockMovements)) = stockMovements
             /\ \E c \in CallIds :
                   LET m == stockMovements'[Len(stockMovements')] IN
                   /\ C29_Inserts(c)
                   /\ m.productId = curItem(c).productId
                   /\ m.orderId = calls[c].orderId
                   /\ m.newStock = calls[c].newStock
                   /\ m.previousStock = calls[c].previousStock
                   /\ IF calls[c].op = "reserve"
                      THEN m.movementType = "OUT" /\ m.quantity = 0 - curItem(c).quantity
                      ELSE /\ calls[c].op = "release"
                           /\ m.movementType = "IN" /\ m.quantity = curItem(c).quantity]_vars

\* C29 witness: the ledger holds an OUT movement of -q written by a reservation
\* and an IN movement of +q written by a release for the same product, each with
\* its operation's order id, the second starting from the stock the first left
\* and leaving the stock the product now has.
C29_Witness ==
    \E i, j \in 1..Len(stockMovements) :
        /\ i < j
        /\ stockMovements[i].movementType = "OUT"
        /\ stockMovements[j].movementType = "IN"
        /\ stockMovements[i].orderId \in OrderIds
        /\ stockMovements[j].orderId \in OrderIds
        /\ stockMovements[i].productId = stockMovements[j].productId
        /\ products[stockMovements[j].productId].stockQuantity = stockMovements[j].newStock
        /\ stockMovements[i].quantity = 0 - stockMovements[j].quantity
        /\ stockMovements[j].previousStock = stockMovements[i].newStock

(***************************************************************************)
(* Further properties of the order saga                                    *)
(***************************************************************************)
\* The order creation r fails in this step at sending its reservation message.
C30_ReservationSendFails(r) ==
    /\ sagas[r].pc = "reserveStock"
    /\ sagas'[r] # sagas[r]
    /\ stock_reservation_queue' = stock_reservation_queue

\* Order creation r has been answered after failing at the reservation send.
C30_Failed(r) ==
    /\ sagas[r].pc = "done"
    /\ sagas[r].log = <<"availability checked", "order persisted", "lines persisted">>

\* C30: when sending the reservation message fails after the order was persisted,
\* the Order row and its lines stay as they are (no rollback), no ORDER_CREATED
\* announcement is published for the order, then or later, and the request is
\* answered 500 'Failed to create order'.
C30_ReservationFailureNotRolledBack ==
    /\ [][\A r \in SagaIds :
             C30_ReservationSendFails(r) =>
                 /\ sagas[r].orderId \in persistedOrderIds
                 /\ orders' = orders
                 /\ orderItems' = orderItems
                 /\ delivery_queue' = delivery_queue
                 /\ sagas'[r].pc = "done"
                 /\ sagas'[r].reply =
                        [sent |-> TRUE, statusCode |-> 500,
                         body |-> [error |-> "Failed to create order"]]
                 /\ sagas'[r].log = sagas[r].log]_vars
    /\ [](\A r \in SagaIds :
            C30_Failed(r) =>
                /\ sagas[r].reply.statusCode = 500
                /\ sagas[r].orderId \in persistedOrderIds
                /\ Cardinality(linesOf(sagas[r].orderId)) = Len(sagas[r].items)
                /\ queuedFor(delivery_queue, sagas[r].orderId) = {}
                /\ queuedFor(stock_reservation_queue, sagas[r].orderId) = {})

\* C30 witness: an order creation was answered 500 after the reservation send
\* failed; its Order row and its line are in the database, nothing about it is on
\* either queue, while the other order creation went through.
C30_Witness ==
    \E r, q \in SagaIds :
        /\ C30_Failed(r)
        /\ sagas[r].reply.statusCode = 500
        /\ sagas[r].orderId \in persistedOrderIds
        /\ linesOf(sagas[r].orderId) # {}
        /\ queuedFor(delivery_queue, sagas[r].orderId) = {}
        /\ q # r
        /\ sagas[q].reply.sent /\ sagas[q].reply.statusCode = 201

\* The availability check of order creation r ends in this step without an
\* answer (the call threw or timed out).
C31_CheckFails(r) ==
    /\ sagas[r].pc = "checkAvailability"
    /\ sagas'[r] # sagas[r]
    /\ "availability checked" \notin {sagas'[r].log[k] : k \in 1..Len(sagas'[r].log)}

\* C31: when the availability check itself fails, POST /orders answers 500
\* 'Failed to create order' and nothing is persisted or sent, then or later: no
\* Order row, no Order Lines, no reservation message, no announcement.
C31_CheckFailureAborts ==
    /\ [][\A r \in SagaIds :
             C31_CheckFails(r) =>
                 /\ sagas'[r].pc = "done"
                 /\ sagas'[r].reply =
                        [sent |-> TRUE, statusCode |-> 500,
                         body |-> [error |-> "Failed to create order"]]
                 /\ orders' = orders
                 /\ orderItems' = orderItems
                 /\ stock_reservation_queue' = stock_reservation_queue
                 /\ delivery_queue' = delivery_queue]_vars
    /\ [](\A r \in SagaIds :
            (sagas[r].pc # "idle" /\ sagas[r].pc # "checkAvailability" /\ sagas[r].log = <<>>)
                => /\ sagas[r].pc = "done"
                   /\ sagas[r].reply.statusCode = 500
                   /\ OrderIdSeq[r] \notin persistedOrderIds
                   /\ linesOf(OrderIdSeq[r]) = {}
                   /\ queuedFor(stock_reservation_queue, OrderIdSeq[r]) = {}
                   /\ queuedFor(delivery_queue, OrderIdSeq[r]) = {})

\* C31 witness: an order creation with a line for a product in stock was answered
\* 500 by a failed availability check and left nothing behind.
C31_Witness ==
    \E r \in SagaIds :
        /\ sagas[r].pc = "done"
        /\ sagas[r].log = <<>>
        /\ sagas[r].items # <<>>
        /\ sagas[r].reply.statusCode = 500
        /\ OrderIdSeq[r] \notin persistedOrderIds

\* The publish of continuation p fails in this step: p ends, nothing is queued.
C32_PublishFails(p) ==
    /\ p \in statusCalls.inFlight /\ p.kind = "publish"
    /\ p \notin statusCalls'.inFlight
    /\ order_status_queue' = order_status_queue

\* C32: status emission is best-effort. When publishing the status message of a
\* delivery-status update fails, the updated delivery row stays as written, the
\* answer to the HTTP call stays the 200 it was, and the publish is not retried:
\* the failed call leaves no pending publish, and a message is only ever put on
\* order_status_queue by a publish that was still pending.
C32_BestEffortEmission ==
    /\ [][\A p \in statusCalls.inFlight :
             C32_PublishFails(p) =>
                 /\ deliveries' = deliveries
                 /\ statusCalls'.reply = statusCalls.reply
                 /\ statusCalls'.request = statusCalls.request
                 /\ statusCalls'.count = statusCalls.count
                 /\ statusCalls'.inFlight = statusCalls.inFlight \ {p}
                 /\ orders' = orders]_vars
    /\ [][\A k \in 1..Len(order_status_queue') :
             k > Len(order_status_queue) =>
                 [kind |-> "publish", message |-> JSONparse(order_status_queue'[k])]
                     \in statusCalls.inFlight \ statusCalls'.inFlight]_vars
    /\ [](statusCalls.count > 0 /\ statusCalls.request.route = "deliveries"
            => statusCalls.reply.statusCode \in {200, 400, 404})

\* C32 witness: the only PATCH so far set delivery 1 to IN_TRANSIT and was
\* answered 200; its publish failed, so its message is nowhere (not pending, not
\* queued, not being applied, not applied to the order), and the row is still
\* IN_TRANSIT.
C32_Witness ==
    /\ statusCalls.count = 1
    /\ statusCalls.request.route = "deliveries"
    /\ statusCalls.request.status = "IN_TRANSIT"
    /\ statusCalls.reply.statusCode = 200
    /\ deliveries[statusCalls.request.id].status = "IN_TRANSIT"
    /\ \A u \in statusCalls.inFlight : u.message.timestamp # 1
    /\ \A k \in 1..Len(order_status_queue) :
          JSONparse(order_status_queue[k]).timestamp # 1
    /\ \A k \in DOMAIN orders : orders[k].status # "IN_TRANSIT"

(***************************************************************************)
(* Properties of the delivery-service consumer                             *)
(***************************************************************************)
\* The consumer takes the message at the head of delivery_queue in this step.
C33_Consumes ==
    /\ delivery_queue # <<>>
    /\ delivery_queue' = Tail(delivery_queue)
    /\ statusCalls'.disposition \in {"ack", "nack"}
    /\ statusCalls'.count = statusCalls.count

\* C33: the delivery-side consumer dispatches on the message type. A consumed
\* ORDER_CREATED message that is acknowledged has created exactly one Delivery,
\* for the message's order id and with status PENDING; ORDER_CANCELLED and unknown
\* types are acknowledged and create or change no Delivery; a message whose
\* processing throws is rejected without requeue and creates or changes no
\* Delivery; and whatever was consumed before, the consumer is ready to take the
\* next message.
C33_DispatchOnType ==
    /\ [][C33_Consumes =>
             LET message == JSONparse(Head(delivery_queue)) IN
             IF message = ParseError
             THEN /\ statusCalls'.disposition = "nack"
                  /\ deliveries' = deliveries
                  /\ statusCalls'.inFlight = statusCalls.inFlight
             ELSE IF message.type = "ORDER_CREATED"
             THEN \/ /\ statusCalls'.disposition = "ack"
                     /\ deliveries' = Append(deliveries, [orderId |-> message.orderId,
                                                          status |-> "PENDING"])
                  \/ /\ statusCalls'.disposition = "nack"
                     /\ deliveries' = deliveries
                     /\ statusCalls'.inFlight = statusCalls.inFlight
             ELSE /\ statusCalls'.disposition = "ack"
                  /\ deliveries' = deliveries
                  /\ statusCalls'.inFlight = statusCalls.inFlight]_vars
    /\ [][delivery_queue # <<>> /\ Len(delivery_queue') < Len(delivery_queue)
             => C33_Consumes]_vars
    /\ [](delivery_queue # <<>> => ENABLED (\E t \in BOOLEAN : ConsumeOrderCreated(t)))

\* C33 witness: the announcement of an order was consumed and its PENDING delivery
\* exists; a cancellation for the same order waits behind a message that was
\* just rejected, and the delivery is unchanged.
C33_Witness ==
    /\ Len(deliveries) = 1
    /\ deliveries[1].status = "PENDING"
    /\ deliveries[1].orderId \in persistedOrderIds
    /\ statusCalls.disposition = "nack"
    /\ delivery_queue # <<>>
    /\ JSONparse(Head(delivery_queue)) # ParseError
    /\ JSONparse(Head(delivery_queue)).type = "ORDER_CANCELLED"

\* C39: at most one Delivery exists per order id, also when the ORDER_CREATED
\* announcement of an order is delivered to the consumer more than once.
C39_OneDeliveryPerOrder ==
    \A d, e \in DOMAIN deliveries :
        deliveries[d].orderId = deliveries[e].orderId => d = e

(***************************************************************************)
(* Order creation and the stock ledger together                            *)
(***************************************************************************)
\* The reserveStock call the consumer made for order creation r is over.
C34_ReservationConsumed(r) ==
    \E c \in CallIds :
        /\ calls[c].op = "reserve"
        /\ calls[c].orderId = sagas[r].orderId
        /\ calls[c].pc \in {"returned", "thrown"}

\* The ledger holds a reserve Movement of order creation r for its line k.
C34_LineReserved(r, k) ==
    \E n \in 1..Len(stockMovements) :
        /\ stockMovements[n].orderId = sagas[r].orderId
        /\ stockMovements[n].productId = sagas[r].items[k].productId
        /\ stockMovements[n].movementType = "OUT"
        /\ stockMovements[n].quantity = 0 - sagas[r].items[k].quantity

\* C34: every order acknowledged to the client with 201 has its stock reserved
\* once its reservation message has been consumed by the inventory service: a
\* reserve Movement of that order exists for each of its lines, under every
\* interleaving with other orders for the same products.
C34_AckedOrderReserved ==
    \A r \in SagaIds :
        (/\ sagas[r].reply.sent /\ sagas[r].reply.statusCode = 201
         /\ C34_ReservationConsumed(r))
        => \A k \in 1..Len(sagas[r].items) : C34_LineReserved(r, k)

(***************************************************************************)
(* Check and reserve compared                                              *)
(***************************************************************************)
\* The product row as it was when the reserveStock call c started, given that no
\* other operation has changed stock since: the stock now, plus what c itself has
\* reserved so far.
C35_ProductAtStart(c, productId) ==
    IF productId \notin DOMAIN products THEN NoProduct
    ELSE [products[productId] EXCEPT
             !.stockQuantity = @ - SumDeltas(movementsOf(calls[c].orderId), productId)]

\* checkAvailability(items) on the state in which call c started reports every
\* item available.
C35_CheckedAvailable(c) ==
    \A k \in 1..Len(calls[c].items) :
        availabilityResult(calls[c].items[k],
                           C35_ProductAtStart(c, calls[c].items[k].productId)).available

\* C35: check and reserve agree. With one call at a time, if checkAvailability
\* reports every item of a list available, reserveStock with the same list does
\* not fail, also when the list names the same product in more than one line.
C35_CheckImpliesReserve ==
    \A c \in CallIds :
        (calls[c].op = "reserve" /\ C35_CheckedAvailable(c)) => calls[c].pc # "thrown"

\* C36: reserveStock decrements a product's stock only if checkAvailability would
\* report that item available at that moment: whenever a product's stock goes
\* down by q, the availability decision for (product, q) on the row as it is then
\* is "available"; in particular the stock of an inactive product never goes down.
C36_DecrementOnlyIfAvailable ==
    [][\A productId \in DOMAIN products :
          products'[productId].stockQuantity < products[productId].stockQuantity
              => availabilityResult(
                     [productId |-> productId,
                      quantity |-> products[productId].stockQuantity
                                       - products'[productId].stockQuantity],
                     products[productId]).available]_vars

(***************************************************************************)
(* Further properties of the correlated RPC                                *)
(***************************************************************************)
\* C37: the pending-request table does not leak: whenever the promise of a
\* checkInventory call has settled (resolved by a reply, rejected by the timeout,
\* or rejected because publishing the request threw), the table holds no entry
\* for the call's correlation id.
C37_NoLeak ==
    \A c \in CorrIds :
        rpc[c].state \in {"resolved", "rejected"} => c \notin pendingInventoryRequests

(***************************************************************************)
(* Convergence of order and delivery status                                *)
(***************************************************************************)
\* Nothing is under way: every announcement and every status message has been
\* consumed, and no status update, publish or consumer callback is suspended.
C38_Drained ==
    /\ delivery_queue = <<>>
    /\ order_status_queue = <<>>
    /\ statusCalls.inFlight = {}

\* C38: convergence. When no message is lost and every emitted status message
\* has been consumed and applied, the status of an order equals the current
\* status of its delivery, whatever the interleaving of concurrent status-update
\* calls (database write, then publish) and of consumer callbacks was.
C38_StatusConverges ==
    C38_Drained =>
        \A d \in DOMAIN deliveries, k \in DOMAIN orders :
            orders[k].id = deliveries[d].orderId => orders[k].status = deliveries[d].status

(***************************************************************************)
(* Reservation under duplicate delivery                                    *)
(***************************************************************************)
\* The reserve Movements the ledger holds for an order and a product.
C40_Reserved(orderId, productId) ==
    {n \in 1..Len(stockMovements) :
        /\ stockMovements[n].orderId = orderId
        /\ stockMovements[n].productId = productId
        /\ stockMovements[n].movementType = "OUT"}

\* The lines of order creation r that name a product.
C40_Lines(r, productId) ==
    {k \in 1..Len(sagas[r].items) : sagas[r].items[k].productId = productId}

\* C40: reservation is idempotent per order. However often the reservation
\* message {orderId, items} of one order is consumed, each product's stock is
\* decremented, and a reserve Movement of that order and product appended, at
\* most once for each line of the order: the stock never falls below the seeded
\* stock less the ordered quantity, and the ledger holds no more reserve
\* Movements of the order and product than the order has lines for it.
C40_ReservedAtMostOnce ==
    \A r \in StatusSagaIds, productId \in SeededIds :
        sagas[r].orderId # Null =>
            /\ Cardinality(C40_Reserved(sagas[r].orderId, productId))
                   <= Cardinality(C40_Lines(r, productId))
            /\ products[productId].stockQuantity
                   >= seedStock[productId] - Cardinality(C40_Lines(r, productId))

====
